---- MODULE Spec2Model ----
(***************************************************************************)
(* Credential-tiered startup (createServer), the Web client's session      *)
(* store (cookies in memory and in the session file), the cookie           *)
(* extractor, and the browser-mediated dispatcher of curseforge-mcp.       *)
(*                                                                         *)
(* JavaScript strings are sequences of one-character strings, so that      *)
(* split, trim, indexOf, toUpperCase and the JSON encoding are computed    *)
(* character by character.                                                 *)
(***************************************************************************)
EXTENDS Integers, Sequences, FiniteSets, TLC

\* ------------------------------------------------------------------------
\* Bounds of the model
\* ------------------------------------------------------------------------

\* longest Cookie Set handed to setCookies
MaxCookies == 2
\* longest enumerated raw cookie string handed to setCookiesFromString
MaxRaw == 3
\* number of concurrent callers of the browser-mediated dispatcher
NumCallers == 2
\* number of request() calls each caller makes
MaxRequests == 2
\* characters a response body has beyond the excerpt an error may carry
MaxOver == 1

\* ------------------------------------------------------------------------
\* Characters and strings
\* ------------------------------------------------------------------------

Quote == "\""
Backslash == "\\"
NL == "\n"
TAB == "\t"

\* the characters String.prototype.trim removes and JSON skips between tokens
Whitespace == {" ", NL, TAB, "\r"}

Digits == {"0", "1", "2", "3", "4", "5", "6", "7", "8", "9"}

RECURSIVE Concat(_)
\* the concatenation of a sequence of strings
Concat(ss) == IF ss = <<>> THEN <<>> ELSE Head(ss) \o Concat(Tail(ss))

\* ------------------------------------------------------------------------
\* JavaScript values as JSON sees them: null, number, string, array, object
\* ------------------------------------------------------------------------

JNull == [t |-> "null", v |-> <<>>]
JBool(b) == [t |-> "bool", v |-> <<b>>]
JNum(digits) == [t |-> "num", v |-> digits]
JStr(s) == [t |-> "str", v |-> s]
JArr(items) == [t |-> "arr", v |-> items]
\* an object is the sequence of its properties, in insertion order
JObj(props) == [t |-> "obj", v |-> props]
Prop(key, val) == [k |-> key, val |-> val]

K_name == <<"n", "a", "m", "e">>
K_value == <<"v", "a", "l", "u", "e">>
K_domain == <<"d", "o", "m", "a", "i", "n">>
K_path == <<"p", "a", "t", "h">>

\* a CookieEntry {name, value, domain, path}
CookieEntry(name, value, domain, path) ==
    JObj(<< Prop(K_name, JStr(name)), Prop(K_value, JStr(value)),
            Prop(K_domain, JStr(domain)), Prop(K_path, JStr(path)) >>)

HasProp(obj, key) == \E i \in 1..Len(obj.v) : obj.v[i].k = key

\* obj[key] for a property the object has
GetProp(obj, key) ==
    obj.v[CHOOSE i \in 1..Len(obj.v) : obj.v[i].k = key].val

\* obj[key] = val: an existing property keeps its place, a new one is appended
SetProp(props, key, val) ==
    IF \E i \in 1..Len(props) : props[i].k = key
    THEN [i \in 1..Len(props) |->
             IF props[i].k = key THEN Prop(key, val) ELSE props[i]]
    ELSE Append(props, Prop(key, val))

IsCookieEntry(x) ==
    /\ x.t = "obj"
    /\ Len(x.v) = 4
    /\ x.v[1].k = K_name /\ x.v[2].k = K_value
    /\ x.v[3].k = K_domain /\ x.v[4].k = K_path
    /\ \A i \in 1..4 : x.v[i].val.t = "str"

\* a Cookie Set: an array of cookie entries
IsCookieSet(x) == x.t = "arr" /\ \A i \in 1..Len(x.v) : IsCookieEntry(x.v[i])

\* ------------------------------------------------------------------------
\* JSON.stringify(value, null, 2) and JSON.parse(text)
\* ------------------------------------------------------------------------

\* one character of a string as JSON.stringify writes it
EscapeChar(c) ==
    IF c = Quote THEN <<Backslash, Quote>>
    ELSE IF c = Backslash THEN <<Backslash, Backslash>>
    ELSE IF c = NL THEN <<Backslash, "n">>
    ELSE IF c = TAB THEN <<Backslash, "t">>
    ELSE IF c = "\r" THEN <<Backslash, "r">>
    ELSE <<c>>

RECURSIVE QuoteChars(_)
QuoteChars(s) ==
    IF s = <<>> THEN <<>> ELSE EscapeChar(Head(s)) \o QuoteChars(Tail(s))

QuoteString(s) == <<Quote>> \o QuoteChars(s) \o <<Quote>>

RECURSIVE Indent(_)
\* the indentation of nesting depth d: two spaces per level
Indent(d) == IF d = 0 THEN <<>> ELSE <<" ", " ">> \o Indent(d - 1)

RECURSIVE Stringify(_, _)
RECURSIVE StringifyItems(_, _)
RECURSIVE StringifyProps(_, _)

\* the elements of a non-empty array, one per line, separated by commas
StringifyItems(items, d) ==
    Indent(d) \o Stringify(Head(items), d)
      \o (IF Len(items) = 1 THEN <<NL>>
          ELSE <<",", NL>> \o StringifyItems(Tail(items), d))

\* the properties of a non-empty object, one per line: "key": value
StringifyProps(props, d) ==
    Indent(d) \o QuoteString(Head(props).k) \o <<":", " ">>
      \o Stringify(Head(props).val, d)
      \o (IF Len(props) = 1 THEN <<NL>>
          ELSE <<",", NL>> \o StringifyProps(Tail(props), d))

\* the text of value x at nesting depth d
Stringify(x, d) ==
    CASE x.t = "null" -> <<"n", "u", "l", "l">>
      [] x.t = "bool" -> IF x.v[1] THEN <<"t", "r", "u", "e">>
                         ELSE <<"f", "a", "l", "s", "e">>
      [] x.t = "num" -> x.v
      [] x.t = "str" -> QuoteString(x.v)
      [] x.t = "arr" ->
           IF x.v = <<>> THEN <<"[", "]">>
           ELSE <<"[", NL>> \o StringifyItems(x.v, d + 1) \o Indent(d) \o <<"]">>
      [] x.t = "obj" ->
           IF x.v = <<>> THEN <<"{", "}">>
           ELSE <<"{", NL>> \o StringifyProps(x.v, d + 1) \o Indent(d) \o <<"}">>

JSONStringify(x) == Stringify(x, 0)

\* a parser result: the value read and the position after it, or a SyntaxError
ParseOk(val, pos) == [ok |-> TRUE, val |-> val, pos |-> pos]
ParseFail == [ok |-> FALSE, val |-> JNull, pos |-> 0]

RECURSIVE SkipWs(_, _)
SkipWs(s, i) ==
    IF i <= Len(s) /\ s[i] \in Whitespace THEN SkipWs(s, i + 1) ELSE i

\* whether word w stands in s at position i
Matches(s, i, w) ==
    /\ i + Len(w) - 1 <= Len(s)
    /\ \A k \in 1..Len(w) : s[i + k - 1] = w[k]

RECURSIVE ScanString(_, _, _)
\* the characters of a string literal from position i (after the opening quote)
ScanString(s, i, acc) ==
    IF i > Len(s) THEN ParseFail
    ELSE IF s[i] = Quote THEN ParseOk(JStr(acc), i + 1)
    ELSE IF s[i] = Backslash THEN
        IF i + 1 > Len(s) THEN ParseFail
        ELSE IF s[i + 1] \in {Quote, Backslash, "/"}
             THEN ScanString(s, i + 2, Append(acc, s[i + 1]))
        ELSE IF s[i + 1] = "n" THEN ScanString(s, i + 2, Append(acc, NL))
        ELSE IF s[i + 1] = "t" THEN ScanString(s, i + 2, Append(acc, TAB))
        ELSE IF s[i + 1] = "r" THEN ScanString(s, i + 2, Append(acc, "\r"))
        ELSE ParseFail
    ELSE IF s[i] \in {NL, TAB, "\r"} THEN ParseFail
    ELSE ScanString(s, i + 1, Append(acc, s[i]))

RECURSIVE ScanDigits(_, _)
\* the position after the digits that start at i
ScanDigits(s, i) ==
    IF i <= Len(s) /\ s[i] \in Digits THEN ScanDigits(s, i + 1) ELSE i

\* an integer literal: digits without a leading zero
ParseNumber(s, i) ==
    LET e == ScanDigits(s, i)
    IN  IF e = i \/ (s[i] = "0" /\ e > i + 1) THEN ParseFail
        ELSE ParseOk(JNum(SubSeq(s, i, e - 1)), e)

RECURSIVE ParseValue(_, _)
RECURSIVE ParseElements(_, _, _)
RECURSIVE ParseMembers(_, _, _)

\* the elements of an array from position i, after "[" or ","
ParseElements(s, i, acc) ==
    LET r == ParseValue(s, i)
        j == SkipWs(s, r.pos)
    IN  IF ~r.ok \/ j > Len(s) THEN ParseFail
        ELSE IF s[j] = "," THEN ParseElements(s, j + 1, Append(acc, r.val))
        ELSE IF s[j] = "]" THEN ParseOk(JArr(Append(acc, r.val)), j + 1)
        ELSE ParseFail

\* the members of an object from position i, after "{" or ","
ParseMembers(s, i, acc) ==
    LET j == SkipWs(s, i)
        key == IF j <= Len(s) /\ s[j] = Quote
               THEN ScanString(s, j + 1, <<>>) ELSE ParseFail
        c == SkipWs(s, key.pos)
        r == IF key.ok /\ c <= Len(s) /\ s[c] = ":"
             THEN ParseValue(s, c + 1) ELSE ParseFail
        e == SkipWs(s, r.pos)
    IN  IF ~r.ok \/ e > Len(s) THEN ParseFail
        ELSE IF s[e] = "," THEN ParseMembers(s, e + 1, SetProp(acc, key.val.v, r.val))
        ELSE IF s[e] = "}" THEN ParseOk(JObj(SetProp(acc, key.val.v, r.val)), e + 1)
        ELSE ParseFail

\* the JSON value that starts at or after position i
ParseValue(s, i) ==
    LET j == SkipWs(s, i)
    IN  IF j > Len(s) THEN ParseFail
        ELSE IF s[j] = Quote THEN ScanString(s, j + 1, <<>>)
        ELSE IF s[j] \in Digits THEN ParseNumber(s, j)
        ELSE IF Matches(s, j, <<"n", "u", "l", "l">>) THEN ParseOk(JNull, j + 4)
        ELSE IF Matches(s, j, <<"t", "r", "u", "e">>) THEN ParseOk(JBool(TRUE), j + 4)
        ELSE IF Matches(s, j, <<"f", "a", "l", "s", "e">>) THEN ParseOk(JBool(FALSE), j + 5)
        ELSE IF s[j] = "[" THEN
            LET k == SkipWs(s, j + 1)
            IN  IF k <= Len(s) /\ s[k] = "]" THEN ParseOk(JArr(<<>>), k + 1)
                ELSE ParseElements(s, j + 1, <<>>)
        ELSE IF s[j] = "{" THEN
            LET k == SkipWs(s, j + 1)
            IN  IF k <= Len(s) /\ s[k] = "}" THEN ParseOk(JObj(<<>>), k + 1)
                ELSE ParseMembers(s, j + 1, <<>>)
        ELSE ParseFail

\* JSON.parse(text): ok is FALSE where JSON.parse throws a SyntaxError
JSONParse(text) ==
    LET r == ParseValue(text, 1)
    IN  IF r.ok /\ SkipWs(text, r.pos) = Len(text) + 1 THEN r ELSE ParseFail

\* ------------------------------------------------------------------------
\* String operations of JavaScript used by the Web client
\* ------------------------------------------------------------------------

LowerCase == <<"a", "b", "c", "d", "e", "f", "g", "h", "i", "j", "k", "l", "m",
               "n", "o", "p", "q", "r", "s", "t", "u", "v", "w", "x", "y", "z">>
UpperCase == <<"A", "B", "C", "D", "E", "F", "G", "H", "I", "J", "K", "L", "M",
               "N", "O", "P", "Q", "R", "S", "T", "U", "V", "W", "X", "Y", "Z">>

\* String.prototype.toUpperCase, per character
UpperChar(c) ==
    IF \E i \in 1..26 : LowerCase[i] = c
    THEN UpperCase[CHOOSE i \in 1..26 : LowerCase[i] = c]
    ELSE c

ToUpperCase(s) == [i \in 1..Len(s) |-> UpperChar(s[i])]

RECURSIVE TrimStart(_)
TrimStart(s) ==
    IF s # <<>> /\ Head(s) \in Whitespace THEN TrimStart(Tail(s)) ELSE s

RECURSIVE TrimEnd(_)
TrimEnd(s) ==
    IF s # <<>> /\ s[Len(s)] \in Whitespace
    THEN TrimEnd(SubSeq(s, 1, Len(s) - 1)) ELSE s

\* String.prototype.trim
Trim(s) == TrimEnd(TrimStart(s))

RECURSIVE IndexFrom(_, _, _)
IndexFrom(s, c, i) ==
    IF i > Len(s) THEN -1
    ELSE IF s[i] = c THEN i - 1
    ELSE IndexFrom(s, c, i + 1)

\* s.indexOf(c): the 0-based position of the first c, or -1
IndexOf(s, c) == IndexFrom(s, c, 1)

\* s.slice(a, b) and s.slice(a), 0-based
Slice(s, a, b) == SubSeq(s, a + 1, b)
SliceFrom(s, a) == SubSeq(s, a + 1, Len(s))

RECURSIVE Split(_, _)
\* s.split(sep) for a one-character separator: never an empty list
Split(s, sep) ==
    LET i == IndexOf(s, sep)
    IN  IF i = -1 THEN <<s>>
        ELSE <<Slice(s, 0, i)>> \o Split(SliceFrom(s, i + 1), sep)

\* array.filter(keep) and array.map(f)
Filter(xs, keep(_)) == SelectSeq(xs, keep)
Map(xs, f(_)) == [i \in 1..Len(xs) |-> f(xs[i])]

\* ------------------------------------------------------------------------
\* The Web client's session store (direct-HTTP variant)
\* ------------------------------------------------------------------------

CF_DOMAIN == <<".", "c", "u", "r", "s", "e", "f", "o", "r", "g", "e", ".", "c", "o", "m">>
ROOT_PATH == <<"/">>

XSRF_TOKEN == <<"X", "S", "R", "F", "-", "T", "O", "K", "E", "N">>
X_XSRF_TOKEN == <<"X", "-">> \o XSRF_TOKEN

JUndefined == [t |-> "undefined", v |-> <<>>]

\* private cookies: CookieEntry[] = []
EmptyCookies == JArr(<<>>)

\* the session file: missing, present but unreadable, or holding text
MissingFile == [state |-> "missing", data |-> <<>>]
UnreadableFile == [state |-> "unreadable", data |-> <<>>]
TextFile(text) == [state |-> "ok", data |-> text]

\* loadCookies never called: the constructor keeps the initial []
loadCookies_skipped(f, cur) == cur

\* the try block of loadCookies: the parsed value, or [] in the catch
ParsedOrEmpty(r) == IF r.ok THEN r.val ELSE EmptyCookies

\* loadCookies(): the value of this.cookies after the constructor
loadCookies(f, cur) ==
    IF f.state = "missing" THEN cur
    ELSE IF f.state = "unreadable" THEN EmptyCookies
    ELSE ParsedOrEmpty(JSONParse(f.data))

\* saveCookies that returns without writing
saveCookies_nowrite(cks, f, wr) == f

\* saveCookies(): the file after writeFileSync, which either writes the
\* whole text or throws and leaves the file as it was
saveCookies(cks, f, wr) ==
    IF wr = "ok" THEN TextFile(JSONStringify(cks)) ELSE f

\* whether reading x.length throws a TypeError
LengthThrows(x) == x.t \in {"null", "undefined"}

K_length == <<"l", "e", "n", "g", "t", "h">>

\* whether a number literal is greater than zero
Positive(digits) == \E i \in 1..Len(digits) : digits[i] # "0"

\* hasCookies(): this.cookies.length > 0, for a value whose length can be read
hasCookies(cks) ==
    CASE cks.t \in {"arr", "str"} -> Len(cks.v) > 0
      [] cks.t \in {"num", "bool"} -> FALSE
      [] cks.t = "obj" ->
           /\ HasProp(cks, K_length)
           /\ GetProp(cks, K_length).t = "num"
           /\ Positive(GetProp(cks, K_length).v)

\* SegmentEntry without the trim() of name and value
SegmentEntry_untrimmed(c) ==
    IF IndexOf(c, "=") = -1 THEN JNull
    ELSE CookieEntry(Slice(c, 0, IndexOf(c, "=")), SliceFrom(c, IndexOf(c, "=") + 1),
                     CF_DOMAIN, ROOT_PATH)

\* one trimmed segment of a cookie string as an entry, or null without "="
SegmentEntry(c) ==
    LET eqIdx == IndexOf(c, "=")
    IN  IF eqIdx = -1 THEN JNull
        ELSE CookieEntry(Trim(Slice(c, 0, eqIdx)), Trim(SliceFrom(c, eqIdx + 1)),
                         CF_DOMAIN, ROOT_PATH)

NonEmpty(c) == c # <<>>
NotNull(c) == c # JNull

\* the entries setCookiesFromString builds from a cookie string
ParseCookieString(cookieString) ==
    Filter(Map(Filter(Map(Split(cookieString, ";"), Trim), NonEmpty),
               SegmentEntry),
           NotNull)

IsXsrfName(name) == ToUpperCase(name) = XSRF_TOKEN \/ ToUpperCase(name) = X_XSRF_TOKEN

\* the find predicate comparing names without toUpperCase()
IsXsrfCookie_exact(c) ==
    GetProp(c, K_name).v = XSRF_TOKEN \/ GetProp(c, K_name).v = X_XSRF_TOKEN

\* the predicate of getXsrfToken's find
IsXsrfCookie(c) == IsXsrfName(GetProp(c, K_name).v)

RECURSIVE FindXsrf(_)
\* this.cookies.find(...): the first entry with an anti-forgery name, or undefined
FindXsrf(xs) ==
    IF xs = <<>> THEN JUndefined
    ELSE IF IsXsrfCookie(Head(xs)) THEN Head(xs)
    ELSE FindXsrf(Tail(xs))

\* getXsrfToken(): xsrf?.value
getXsrfToken(cks) ==
    LET xsrf == FindXsrf(cks.v)
    IN  IF xsrf = JUndefined THEN JUndefined ELSE GetProp(xsrf, K_value)

\* ------------------------------------------------------------------------
\* The cookie extractor
\* ------------------------------------------------------------------------

\* the browsers array of extractCookies, in its order
Browsers == <<"Chrome", "Firefox", "Edge", "Brave", "Chromium", "Opera", "Opera GX",
              "Vivaldi", "Arc", "LibreWolf", "OctoBrowser", "Internet Explorer">>

K_secure == <<"s", "e", "c", "u", "r", "e">>

\* a CookieObject of the extraction library: more fields than a CookieEntry
CookieObject(name, value, domain, path, secure) ==
    JObj(<< Prop(K_domain, JStr(domain)), Prop(K_path, JStr(path)),
            Prop(K_secure, JBool(secure)), Prop(K_name, JStr(name)),
            Prop(K_value, JStr(value)) >>)

\* one raw cookie as a CookieEntry
toCookieEntry(c) ==
    JObj(<< Prop(K_name, GetProp(c, K_name)), Prop(K_value, GetProp(c, K_value)),
            Prop(K_domain, GetProp(c, K_domain)), Prop(K_path, GetProp(c, K_path)) >>)

toCookieEntries(raw) == Map(raw, toCookieEntry)

\* what querying one browser does: it throws, or returns a list of raw cookies
Throws == [throws |-> TRUE, raw |-> <<>>]
Returns(raw) == [throws |-> FALSE, raw |-> raw]

LIB_UNAVAILABLE ==
    "@rookie-rs/api not available on this platform. Use cf_set_cookies to set cookies manually."
NO_BROWSER == "No browser had curseforge.com cookies"

RECURSIVE ExtractLoop_nobreak(_, _, _)
\* a loop that keeps the cookies it found and goes on to the browsers after
ExtractLoop_nobreak(out, i, queried) ==
    IF i > Len(Browsers)
    THEN [browser |-> "none", cookies |-> <<>>, error |-> NO_BROWSER, queried |-> queried]
    ELSE IF ~out[i].throws /\ Len(out[i].raw) > 0
    THEN [browser |-> Browsers[i], cookies |-> toCookieEntries(out[i].raw), error |-> "",
          queried |-> ExtractLoop_nobreak(out, i + 1, Append(queried, Browsers[i])).queried]
    ELSE ExtractLoop_nobreak(out, i + 1, Append(queried, Browsers[i]))

RECURSIVE ExtractLoop(_, _, _)
\* the for loop of extractCookies from browser i on; queried lists the
\* browsers whose function has been called
ExtractLoop(out, i, queried) ==
    IF i > Len(Browsers)
    THEN [browser |-> "none", cookies |-> <<>>, error |-> NO_BROWSER, queried |-> queried]
    ELSE IF ~out[i].throws /\ Len(out[i].raw) > 0
    THEN [browser |-> Browsers[i], cookies |-> toCookieEntries(out[i].raw),
          error |-> "", queried |-> Append(queried, Browsers[i])]
    ELSE ExtractLoop(out, i + 1, Append(queried, Browsers[i]))

\* extractCookies() in an environment: whether the library can be imported
\* and what each browser's query does; error "" stands for no error field
extractCookies(env) ==
    IF ~env.lib
    THEN [browser |-> "none", cookies |-> <<>>, error |-> LIB_UNAVAILABLE, queried |-> <<>>]
    ELSE ExtractLoop(env.out, 1, <<>>)

\* the return value of autoExtractCookies
Extracted(n, browser) == [kind |-> "extracted", n |-> n, browser |-> browser, text |-> ""]
NotExtracted(text) == [kind |-> "none", n |-> 0, browser |-> "none", text |-> text]
ExtractFailed == [kind |-> "failed", n |-> 0, browser |-> "none",
                  text |-> "Auto-extraction failed: "]

\* autoExtractCookies() without its try/catch: a failing write propagates
useExtraction_uncaught(rslt, cks, f, wr) ==
    IF Len(rslt.cookies) > 0
    THEN [cookies |-> JArr(rslt.cookies),
          file |-> saveCookies(JArr(rslt.cookies), f, wr),
          ret |-> IF wr = "ok" THEN Extracted(Len(rslt.cookies), rslt.browser)
                  ELSE [kind |-> "threw", n |-> 0, browser |-> "none", text |-> ""]]
    ELSE [cookies |-> cks, file |-> f,
          ret |-> NotExtracted(IF rslt.error # "" THEN rslt.error
                               ELSE "No cookies found")]

\* autoExtractCookies() after the extractor has returned result: the
\* cookies, the file and the string it returns
\* an extraction that installs what the extractor returned even when that
\* is nothing
useExtraction_cleared(rslt, cks, f, wr) ==
    IF Len(rslt.cookies) > 0
    THEN [cookies |-> JArr(rslt.cookies),
          file |-> saveCookies(JArr(rslt.cookies), f, wr),
          ret |-> IF wr = "ok" THEN Extracted(Len(rslt.cookies), rslt.browser)
                  ELSE ExtractFailed]
    ELSE [cookies |-> EmptyCookies, file |-> f,
          ret |-> NotExtracted(IF rslt.error # "" THEN rslt.error
                               ELSE "No cookies found")]

useExtraction(rslt, cks, f, wr) ==
    IF Len(rslt.cookies) > 0
    THEN [cookies |-> JArr(rslt.cookies),
          file |-> saveCookies(JArr(rslt.cookies), f, wr),
          ret |-> IF wr = "ok" THEN Extracted(Len(rslt.cookies), rslt.browser)
                  ELSE ExtractFailed]
    ELSE [cookies |-> cks, file |-> f,
          ret |-> NotExtracted(IF rslt.error # "" THEN rslt.error
                               ELSE "No cookies found")]

\* autoExtractCookies()
autoExtractCookies(cks, f, env, wr) == useExtraction(extractCookies(env), cks, f, wr)

\* the Web client after init() has run autoExtractCookies
Extracting(ld, r) ==
    [threw |-> FALSE, loaded |-> ld, cookies |-> r.cookies, file |-> r.file,
     ret |-> r.ret]

\* init() of a Web client whose constructor loaded ld
init(ld, f, env, wr) ==
    IF LengthThrows(ld)
    THEN [threw |-> TRUE, loaded |-> ld, cookies |-> ld, file |-> f,
          ret |-> NotExtracted("")]
    ELSE IF hasCookies(ld)
    THEN [threw |-> FALSE, loaded |-> ld, cookies |-> ld, file |-> f,
          ret |-> NotExtracted("")]
    ELSE Extracting(ld, autoExtractCookies(ld, f, env, wr))

\* new WebClient(config) followed by init(): threw is TRUE when init() rejects
StartClient(f, env, wr) == init(loadCookies(f, EmptyCookies), f, env, wr)


\* ------------------------------------------------------------------------
\* The browser-mediated variant of the Web client
\* ------------------------------------------------------------------------

\* no cookie set was given to the BrowserClient yet
NothingHanded == JUndefined

\* a browser-mediated WebClient: this.cookies, its session file, the set
\* its BrowserClient was last given, and whether its last call returned
Twin(cks, f, handed, ok) == [cookies |-> cks, file |-> f, handed |-> handed, ok |-> ok]

\* no browser-mediated WebClient exists
NoTwin == Twin(EmptyCookies, MissingFile, NothingHanded, TRUE)

\* a BrowserClient that ignores the set it is given
browserSetCookies_ignored(handed, cks) == handed

\* this.browser.setCookies(cks): the set the BrowserClient holds afterwards
browserSetCookies(handed, cks) == cks

\* loadCookies() of the browser-mediated variant
twinLoadCookies(f, cur) ==
    IF f.state = "missing" THEN cur
    ELSE IF f.state = "unreadable" THEN EmptyCookies
    ELSE ParsedOrEmpty(JSONParse(f.data))

\* saveCookies() of the browser-mediated variant
twinSaveCookies(cks, f, wr) ==
    IF wr = "ok" THEN TextFile(JSONStringify(cks)) ELSE f

\* the constructor of the browser-mediated variant on session file f
twinConstruct(f) == Twin(twinLoadCookies(f, EmptyCookies), f, NothingHanded, TRUE)

\* a setCookies that keeps the set in memory only
twinSetCookies_unsaved(t, entries, wr) ==
    Twin(entries, t.file, browserSetCookies(t.handed, entries), TRUE)

\* setCookies(cookies) and the tail of setCookiesFromString of the
\* browser-mediated variant: assign, hand to the browser, save
twinSetCookies(t, entries, wr) ==
    Twin(entries, twinSaveCookies(entries, t.file, wr),
         browserSetCookies(t.handed, entries), wr = "ok")

\* setCookiesFromString(cookieString) of the browser-mediated variant
twinSetCookiesFromString(t, raw, wr) ==
    twinSetCookies(t, JArr(ParseCookieString(raw)), wr)

\* autoExtractCookies() of the browser-mediated variant after the
\* extractor has returned rslt
twinUseExtraction(t, rslt, wr) ==
    IF Len(rslt.cookies) > 0
    THEN Twin(JArr(rslt.cookies),
              twinSaveCookies(JArr(rslt.cookies), t.file, wr),
              browserSetCookies(t.handed, JArr(rslt.cookies)), TRUE)
    ELSE Twin(t.cookies, t.file, t.handed, TRUE)

\* autoExtractCookies() of the browser-mediated variant
twinAutoExtractCookies(t, env, wr) == twinUseExtraction(t, extractCookies(env), wr)

\* the last statement of init(): this.browser.setCookies(this.cookies)
twinSeed(t) == Twin(t.cookies, t.file, browserSetCookies(t.handed, t.cookies), TRUE)

\* init() of the browser-mediated variant
twinInit(t, env, wr) ==
    IF LengthThrows(t.cookies) THEN Twin(t.cookies, t.file, t.handed, FALSE)
    ELSE IF hasCookies(t.cookies) THEN twinSeed(t)
    ELSE twinSeed(twinAutoExtractCookies(t, env, wr))

\* the call the browser-mediated request() hands to its BrowserClient:
\* the token header from this.cookies, and the cookies the browser holds
twinRequest(t, url, method) ==
    [url |-> url, method |-> method, token |-> getXsrfToken(t.cookies),
     cookies |-> t.handed]
\* ------------------------------------------------------------------------
\* Startup: createServer and the tool groups it registers
\* ------------------------------------------------------------------------

\* the tools registerCoreApiTools registers only with a Core client
CatalogTools == {"search_mods", "get_mod", "get_mod_files", "get_mod_file",
                 "get_mod_description", "get_mod_changelog", "get_download_url",
                 "download_mod", "get_featured_mods", "get_mods_batch",
                 "get_categories", "get_game_versions"}
\* the CFWidget tools
PublicTools == {"get_project", "search_author"}
UploadTools == {"upload_file", "get_upload_game_versions",
                "get_upload_game_version_types", "get_upload_dependencies"}
WebTools == {"cf_set_cookies", "cf_auto_extract_cookies", "get_comments",
             "post_comment", "delete_comment", "get_project_settings",
             "update_project_description", "cf_fetch_page"}

\* new CoreApiClient(config) inside createServer's try: the client, or null
\* when the key is empty or the constructor throws (lib is what the
\* curseforge-api constructor does)
newCoreApiClient(cfg, lib) ==
    IF cfg.curseforgeApiKey # "" /\ lib = "ok" THEN "client" ELSE "null"

\* whether new UploadApiClient(config) throws
UploadCtorThrows(cfg) == cfg.curseforgeAuthorToken = ""

\* registerCoreApiTools without its if (client)
registerCoreApiTools_unguarded(client) == CatalogTools \cup PublicTools

\* registerCoreApiTools with every registration inside its if (client)
registerCoreApiTools_keyed(client) ==
    IF client # "null" THEN CatalogTools \cup PublicTools ELSE {}

registerCoreApiTools(client) ==
    IF client # "null" THEN CatalogTools \cup PublicTools ELSE PublicTools

\* the Upload block of createServer: the tools it registers
registerUploadBlock(cfg) ==
    IF cfg.curseforgeAuthorToken # "" /\ ~UploadCtorThrows(cfg)
    THEN UploadTools ELSE {}

\* createServer() with its Core client and its Web client
ServerWith(core, cfg, web) ==
    [coreClient |-> core,
     registered |-> registerCoreApiTools(core) \cup registerUploadBlock(cfg)
                      \cup (IF web.threw THEN {} ELSE WebTools),
     web |-> web,
     rejected |-> web.threw]

\* createServer(): the Core client, the registered tools, the Web client's
\* state and whether the returned promise rejects
createServer(cfg, lib, f, env, wr) ==
    ServerWith(newCoreApiClient(cfg, lib), cfg, StartClient(f, env, wr))

\* ------------------------------------------------------------------------
\* Strings of the dispatchers
\* ------------------------------------------------------------------------

DigitChars == <<"0", "1", "2", "3", "4", "5", "6", "7", "8", "9">>

RECURSIVE Decimal(_)
\* `${n}` for an integer n
Decimal(n) ==
    IF n < 0 THEN <<"-">> \o Decimal(0 - n)
    ELSE IF n < 10 THEN <<DigitChars[n + 1]>>
    ELSE Decimal(n \div 10) \o <<DigitChars[(n % 10) + 1]>>

\* s.startsWith(p) and s.includes(p)
StartsWith(s, p) == Len(p) <= Len(s) /\ SubSeq(s, 1, Len(p)) = p
Includes(s, p) == \E i \in 0..(Len(s) - Len(p)) : SubSeq(s, i + 1, i + Len(p)) = p

\* s.slice(0, n)
Prefix(s, n) == SubSeq(s, 1, IF n < Len(s) THEN n ELSE Len(s))

RECURSIVE Join(_, _)
\* parts.join(sep)
Join(parts, sep) ==
    IF parts = <<>> THEN <<>>
    ELSE IF Len(parts) = 1 THEN parts[1]
    ELSE parts[1] \o sep \o Join(Tail(parts), sep)

\* obj.key, undefined when the object has no such property
Field(obj, key) ==
    IF obj.t = "obj" /\ HasProp(obj, key) THEN GetProp(obj, key) ELSE JUndefined

\* `${x}` for a string, a number, a boolean, null or undefined
TemplateText(x) ==
    CASE x.t \in {"str", "num"} -> x.v
      [] x.t = "bool" -> IF x.v[1] THEN <<"t", "r", "u", "e">> ELSE <<"f", "a", "l", "s", "e">>
      [] x.t = "null" -> <<"n", "u", "l", "l">>
      [] x.t = "undefined" -> <<"u", "n", "d", "e", "f", "i", "n", "e", "d">>

\* whether if (x) takes the branch
Truthy(x) ==
    CASE x.t = "str" -> x.v # <<>>
      [] x.t = "num" -> Positive(x.v)
      [] x.t = "bool" -> x.v[1]
      [] x.t \in {"null", "undefined"} -> FALSE
      [] x.t \in {"arr", "obj"} -> TRUE

\* a property JSON.stringify writes: one whose value is not undefined
DefinedProp(p) == p.val.t # "undefined"

RECURSIVE CompactItems(_)
RECURSIVE CompactProps(_)
RECURSIVE Compact(_)
CompactItems(items) ==
    Compact(Head(items))
      \o (IF Len(items) = 1 THEN <<>> ELSE <<",">> \o CompactItems(Tail(items)))
CompactProps(props) ==
    QuoteString(Head(props).k) \o <<":">> \o Compact(Head(props).val)
      \o (IF Len(props) = 1 THEN <<>> ELSE <<",">> \o CompactProps(Tail(props)))
\* JSON.stringify(x): no indentation, no spaces
Compact(x) ==
    CASE x.t = "null" -> <<"n", "u", "l", "l">>
      [] x.t = "bool" -> IF x.v[1] THEN <<"t", "r", "u", "e">> ELSE <<"f", "a", "l", "s", "e">>
      [] x.t = "num" -> x.v
      [] x.t = "str" -> QuoteString(x.v)
      [] x.t = "arr" -> <<"[">> \o (IF x.v = <<>> THEN <<>> ELSE CompactItems(x.v)) \o <<"]">>
      [] x.t = "obj" ->
           <<"{">> \o (IF SelectSeq(x.v, DefinedProp) = <<>> THEN <<>>
                       ELSE CompactProps(SelectSeq(x.v, DefinedProp))) \o <<"}">>

\* headers objects: a function from header names to values
NoHeaders == [h \in {} |-> <<>>]
Header(name, val) == [h \in {name} |-> val]
\* { ...base, ...over }: the properties of over replace those of base
Spread(base, over) ==
    [h \in DOMAIN base \cup DOMAIN over |-> IF h \in DOMAIN over THEN over[h] ELSE base[h]]

USER_AGENT == <<"M", "o", "z", "i", "l", "l", "a", "/", "5", ".", "0", " ", "(", "X", "1", "1",
      ";", " ", "L", "i", "n", "u", "x", " ", "x", "8", "6", "_", "6", "4", ")",
      " ", "A", "p", "p", "l", "e", "W", "e", "b", "K", "i", "t", "/", "5", "3",
      "7", ".", "3", "6", " ", "(", "K", "H", "T", "M", "L", ",", " ", "l", "i",
      "k", "e", " ", "G", "e", "c", "k", "o", ")", " ", "C", "h", "r", "o", "m",
      "e", "/", "1", "3", "1", ".", "0", ".", "0", ".", "0", " ", "S", "a", "f",
      "a", "r", "i", "/", "5", "3", "7", ".", "3", "6">>

APPLICATION_JSON == <<"a", "p", "p", "l", "i", "c", "a", "t", "i", "o", "n", "/", "j", "s", "o", "n">>

\* ------------------------------------------------------------------------
\* URLs
\* ------------------------------------------------------------------------

HTTPS_SCHEME == <<"h", "t", "t", "p", "s", ":", "/", "/">>
HTTP_SCHEME == <<"h", "t", "t", "p", ":", "/", "/">>

\* the scheme of an absolute http(s) URL, <<>> for text without a scheme
SchemeOf(target) ==
    CASE StartsWith(target, HTTPS_SCHEME) -> HTTPS_SCHEME
      [] StartsWith(target, HTTP_SCHEME) -> HTTP_SCHEME
      [] IndexOf(target, ":") = -1 -> <<>>

RECURSIVE HostOf(_)
\* the authority a URL's remainder begins with: up to the first / ? or #
HostOf(rest) ==
    IF rest = <<>> \/ Head(rest) \in {"/", "?", "#"} THEN <<>>
    ELSE <<Head(rest)>> \o HostOf(Tail(rest))

AuthorityOf(target) == HostOf(SliceFrom(target, Len(SchemeOf(target))))

\* whether new URL(target) and fetch(target) accept the text: an absolute
\* URL with a host; text without a scheme is a relative reference and throws
UrlValid(target) == SchemeOf(target) # <<>> /\ AuthorityOf(target) # <<>>

\* new URL(target).origin
UrlOrigin(target) == SchemeOf(target) \o AuthorityOf(target)

\* ------------------------------------------------------------------------
\* HTTP: what fetch is given and what it answers
\* ------------------------------------------------------------------------

\* one outbound request: fetch(url, {method, headers, body})
HttpRequest(target, method, headers, payload) ==
    [url |-> target, method |-> method, headers |-> headers, body |-> payload]

\* what the network does with a request: fetch rejects, or a response with
\* a status, a content-type header (null when missing) and a body whose
\* text can be read or not
NetworkFailure ==
    [net |-> "fail", status |-> 0, ctype |-> JNull, body |-> <<>>, text |-> "fail"]
Response(status, ctype, payload, readable) ==
    [net |-> "ok", status |-> status, ctype |-> ctype, body |-> payload,
     text |-> readable]

\* res.ok
IsOk(status) == status >= 200 /\ status <= 299

\* what a client method does: the requests it issued and either the value
\* it resolves to or the message of the error it rejects with
Rejects(sent, msg) == [sent |-> sent, threw |-> TRUE, msg |-> msg, value |-> JUndefined]
Resolves(sent, val) == [sent |-> sent, threw |-> FALSE, msg |-> <<>>, value |-> val]

\* messages of the runtime's own errors
NOT_A_FUNCTION == <<"t", "h", "i", "s", ".", "c", "o", "o", "k", "i", "e", "s", ".", "m", "a", "p",
      " ", "i", "s", " ", "n", "o", "t", " ", "a", " ", "f", "u", "n", "c", "t",
      "i", "o", "n">>
INVALID_URL == <<"I", "n", "v", "a", "l", "i", "d", " ", "U", "R", "L">>
FETCH_FAILED == <<"f", "e", "t", "c", "h", " ", "f", "a", "i", "l", "e", "d">>
NOT_JSON == <<"U", "n", "e", "x", "p", "e", "c", "t", "e", "d", " ", "t", "o", "k", "e", "n",
      " ", "i", "n", " ", "J", "S", "O", "N">>
BODY_UNREADABLE == <<"t", "e", "r", "m", "i", "n", "a", "t", "e", "d">>

\* await res.text().catch(() => "")
TextOrEmpty(res) == IF res.text = "ok" THEN res.body ELSE <<>>

\* res.json() of a response whose text was read
DecodeJson(sent, parsed) ==
    IF parsed.ok THEN Resolves(sent, parsed.val) ELSE Rejects(sent, NOT_JSON)

\* res.json()
ResJson(sent, res) ==
    IF res.text # "ok" THEN Rejects(sent, BODY_UNREADABLE)
    ELSE DecodeJson(sent, JSONParse(res.body))

\* res.text()
ResText(sent, res) ==
    IF res.text # "ok" THEN Rejects(sent, BODY_UNREADABLE)
    ELSE Resolves(sent, JStr(res.body))

\* ------------------------------------------------------------------------
\* The direct-HTTP dispatcher of the Web client
\* ------------------------------------------------------------------------

CF_ORIGIN == <<"h", "t", "t", "p", "s", ":", "/", "/", "w", "w", "w", ".", "c", "u", "r", "s",
      "e", "f", "o", "r", "g", "e", ".", "c", "o", "m">>

\* `${c.name}=${c.value}`
CookiePair(c) ==
    TemplateText(Field(c, K_name)) \o <<"=">> \o TemplateText(Field(c, K_value))

\* getCookieHeader(), for an array
getCookieHeader(cks) == Join(Map(cks.v, CookiePair), <<";", " ">>)

\* the origin browserHeaders detects from the target URL
OriginOf(target) == IF UrlValid(target) THEN UrlOrigin(target) ELSE CF_ORIGIN

\* the headers object before the anti-forgery token is looked up
BaseHeaders(cks, target, extra) ==
    Spread([h \in {"User-Agent", "Cookie", "Accept", "Origin", "Referer"} |->
               CASE h = "User-Agent" -> USER_AGENT
                 [] h = "Cookie" -> getCookieHeader(cks)
                 [] h = "Accept" -> APPLICATION_JSON
                 [] h = "Origin" -> OriginOf(target)
                 [] h = "Referer" -> OriginOf(target) \o <<"/">>],
           extra)

\* a token that is spread before the caller's headers: a caller's
\* X-XSRF-TOKEN stays
WithXsrf_first(headers, xsrf) ==
    IF Truthy(xsrf) /\ "X-XSRF-TOKEN" \notin DOMAIN headers
    THEN Spread(headers, Header("X-XSRF-TOKEN", TemplateText(xsrf)))
    ELSE headers

\* headers["X-XSRF-TOKEN"] = xsrf, when xsrf is truthy
WithXsrf(headers, xsrf) ==
    IF Truthy(xsrf) THEN Spread(headers, Header("X-XSRF-TOKEN", TemplateText(xsrf)))
    ELSE headers

\* browserHeaders(targetUrl, extra), for an array of cookies
browserHeaders(cks, target, extra) ==
    WithXsrf(BaseHeaders(cks, target, extra), getXsrfToken(cks))

\* the headers request() passes to browserHeaders as extra
RequestExtra(payload, extraHeaders) ==
    Spread(IF payload # JUndefined THEN Header("Content-Type", APPLICATION_JSON)
           ELSE NoHeaders,
           extraHeaders)

\* body !== undefined ? JSON.stringify(body) : undefined
WireBody(payload) == IF payload = JUndefined THEN JUndefined ELSE JStr(Compact(payload))

\* the characters of the response body an error message may carry
WEB_EXCERPT == 500

\* an excerpt that is the whole body
errorExcerpt_whole(errorBody) == errorBody

\* errorBody.slice(0, 500)
errorExcerpt(errorBody) == Prefix(errorBody, WEB_EXCERPT)

\* `HTTP ${res.status}: ${url}${errorBody ? `\n${errorBody.slice(0, 500)}` : ""}`
HttpErrorMessage(status, target, errorBody) ==
    <<"H", "T", "T", "P", " ">> \o Decimal(status) \o <<":", " ">> \o target
      \o (IF errorBody # <<>> THEN <<NL>> \o errorExcerpt(errorBody) ELSE <<>>)

\* contentType.includes("application/json") read as equality
IsJsonType_exact(contentType) == contentType = APPLICATION_JSON

\* contentType.includes("application/json")
IsJsonType(contentType) == Includes(contentType, APPLICATION_JSON)

\* res.headers.get("content-type") || ""
ContentType(res) == IF Truthy(res.ctype) THEN res.ctype.v ELSE <<>>

\* a request() that sends the request again when the response is not ok
AfterFetch_retry(req, res) ==
    IF res.net = "fail" THEN Rejects(<<req, req>>, FETCH_FAILED)
    ELSE IF ~IsOk(res.status)
    THEN Rejects(<<req, req>>, HttpErrorMessage(res.status, req.url, TextOrEmpty(res)))
    ELSE IF IsJsonType(ContentType(res)) THEN ResJson(<<req>>, res)
    ELSE ResText(<<req>>, res)

\* request() from its fetch on: the request has been issued and the
\* network does res
AfterFetch(req, res) ==
    IF res.net = "fail" THEN Rejects(<<req>>, FETCH_FAILED)
    ELSE IF ~IsOk(res.status)
    THEN Rejects(<<req>>, HttpErrorMessage(res.status, req.url, TextOrEmpty(res)))
    ELSE IF IsJsonType(ContentType(res)) THEN ResJson(<<req>>, res)
    ELSE ResText(<<req>>, res)

\* fetch(url, init): a URL fetch cannot parse is rejected before anything
\* is sent
Fetch(req, res) ==
    IF ~UrlValid(req.url) THEN Rejects(<<>>, INVALID_URL) ELSE AfterFetch(req, res)

\* WebClient.request(url, method, body, extraHeaders) with the Cookie Set
\* cks, when the network does res; a cookies value that is not an array
\* has no map()
request(cks, target, method, payload, extraHeaders, res) ==
    IF cks.t # "arr" THEN Rejects(<<>>, NOT_A_FUNCTION)
    ELSE Fetch(HttpRequest(target, method,
                           browserHeaders(cks, target, RequestExtra(payload, extraHeaders)),
                           WireBody(payload)),
               res)

\* ------------------------------------------------------------------------
\* The CFWidget client
\* ------------------------------------------------------------------------

CFWIDGET_BASE == <<"h", "t", "t", "p", "s", ":", "/", "/", "a", "p", "i", ".", "c", "f", "w", "i",
      "d", "g", "e", "t", ".", "c", "o", "m">>

CFWIDGET_EXCERPT == 300

\* `CFWidget ${res.status}: ${path}${body ? `\n${body.slice(0, 300)}` : ""}`
CfWidgetErrorMessage(status, path, errorBody) ==
    <<"C", "F", "W", "i", "d", "g", "e", "t", " ">> \o Decimal(status) \o <<":", " ">> \o path
      \o (IF errorBody # <<>> THEN <<NL>> \o Prefix(errorBody, CFWIDGET_EXCERPT)
          ELSE <<>>)

\* CfWidgetClient.get from its fetch on
CfWidgetAfterFetch(req, path, res) ==
    IF res.net = "fail" THEN Rejects(<<req>>, FETCH_FAILED)
    ELSE IF ~IsOk(res.status)
    THEN Rejects(<<req>>, CfWidgetErrorMessage(res.status, path, TextOrEmpty(res)))
    ELSE ResJson(<<req>>, res)

\* CfWidgetClient.get(path)
CfWidgetGet(path, res) ==
    CfWidgetAfterFetch(
        HttpRequest(CFWIDGET_BASE \o path, "GET",
                    Spread(Header("User-Agent", USER_AGENT),
                           Header("Accept", APPLICATION_JSON)),
                    JUndefined),
        path, res)

\* the characters encodeURIComponent leaves as they are
Unreserved ==
    {LowerCase[i] : i \in 1..26} \cup {UpperCase[i] : i \in 1..26} \cup Digits
      \cup {"-", "_", ".", "!", "~", "*", "'", "(", ")"}

\* encodeURIComponent of one character
EncodeChar(c) ==
    CASE c \in Unreserved -> <<c>>
      [] c = " " -> <<"%", "2", "0">>
      [] c = "/" -> <<"%", "2", "F">>
      [] c = "?" -> <<"%", "3", "F">>
      [] c = "#" -> <<"%", "2", "3">>
      [] c = "&" -> <<"%", "2", "6">>
      [] c = "=" -> <<"%", "3", "D">>
      [] c = "%" -> <<"%", "2", "5">>

RECURSIVE EncodeURIComponent(_)
EncodeURIComponent(s) ==
    IF s = <<>> THEN <<>> ELSE EncodeChar(Head(s)) \o EncodeURIComponent(Tail(s))

\* getProject(idOrPath)
getProject(idOrPath, res) ==
    CfWidgetGet(IF StartsWith(idOrPath, <<"/">>) THEN idOrPath ELSE <<"/">> \o idOrPath,
                res)

\* searchAuthor(username)
searchAuthor(username, res) ==
    CfWidgetGet(<<"/", "a", "u", "t", "h", "o", "r", "/", "s", "e", "a", "r", "c", "h", "/">> \o EncodeURIComponent(username), res)

\* ------------------------------------------------------------------------
\* The Upload client
\* ------------------------------------------------------------------------

\* BASE_URL of the Upload client
UPLOAD_BASE == <<"h", "t", "t", "p", "s", ":", "/", "/", "w", "w", "w", ".", "c", "u", "r", "s",
      "e", "f", "o", "r", "g", "e", ".", "c", "o", "m">>

\* headers(), and the headers uploadFile writes out
UploadHeaders(token) ==
    Spread(Header("X-Api-Token", token), Header("User-Agent", USER_AGENT))

\* `Upload API error ${res.status} at ${res.url}`
UploadApiErrorMessage(status, target) ==
    <<"U", "p", "l", "o", "a", "d", " ", "A", "P", "I", " ", "e", "r", "r", "o", "r",
      " ">> \o Decimal(status) \o <<" ", "a", "t", " ">> \o target

\* getGameVersions and getGameVersionTypes from their fetch on
UploadGetAfterFetch(req, res) ==
    IF res.net = "fail" THEN Rejects(<<req>>, FETCH_FAILED)
    ELSE IF ~IsOk(res.status)
    THEN Rejects(<<req>>, UploadApiErrorMessage(res.status, req.url))
    ELSE ResJson(<<req>>, res)

UploadGet(token, path, res) ==
    UploadGetAfterFetch(HttpRequest(UPLOAD_BASE \o path, "GET", UploadHeaders(token),
                                    JUndefined),
                        res)

getGameVersions(token, res) == UploadGet(token, <<"/", "a", "p", "i", "/", "g", "a", "m", "e", "/", "v", "e", "r", "s", "i", "o",
      "n", "s">>, res)
getGameVersionTypes(token, res) == UploadGet(token, <<"/", "a", "p", "i", "/", "g", "a", "m", "e", "/", "v", "e", "r", "s", "i", "o",
      "n", "-", "t", "y", "p", "e", "s">>, res)

RECURSIVE Basename(_)
\* path.basename(filePath) of a path that does not end in a separator
Basename(filePath) ==
    IF IndexOf(filePath, "/") = -1 THEN filePath
    ELSE Basename(SliceFrom(filePath, IndexOf(filePath, "/") + 1))

K_metadata == <<"m", "e", "t", "a", "d", "a", "t", "a">>
K_file == <<"f", "i", "l", "e">>

\* the FormData of uploadFile: the metadata as JSON and the file under its name
UploadForm(filePath, metadata) ==
    JObj(<< Prop(K_metadata, JStr(Compact(metadata))),
            Prop(K_file, JStr(Basename(filePath))) >>)

ENOENT == <<"E", "N", "O", "E", "N", "T", ":", " ", "n", "o", " ", "s", "u", "c", "h", " ",
      "f", "i", "l", "e", " ", "o", "r", " ", "d", "i", "r", "e", "c", "t", "o",
      "r", "y">>

\* `Upload failed (${res.status}): ${errorText}`
UploadFailedMessage(status, errorText) ==
    <<"U", "p", "l", "o", "a", "d", " ", "f", "a", "i", "l", "e", "d", " ", "(">> \o Decimal(status) \o <<")", ":", " ">> \o errorText

\* uploadFile from its fetch on; await res.text() is not guarded
UploadAfterFetch(req, res) ==
    IF res.net = "fail" THEN Rejects(<<req>>, FETCH_FAILED)
    ELSE IF ~IsOk(res.status)
    THEN (IF res.text # "ok" THEN Rejects(<<req>>, BODY_UNREADABLE)
          ELSE Rejects(<<req>>, UploadFailedMessage(res.status, res.body)))
    ELSE ResJson(<<req>>, res)

\* uploadFile(projectId, filePath, metadata): readFileSync throws for a file
\* that cannot be read, before anything is sent
uploadFile(token, projectId, filePath, readable, metadata, res) ==
    IF ~readable THEN Rejects(<<>>, ENOENT)
    ELSE UploadAfterFetch(
             HttpRequest(UPLOAD_BASE \o <<"/", "a", "p", "i", "/", "p", "r", "o", "j", "e", "c", "t", "s", "/">> \o Decimal(projectId)
                           \o <<"/", "u", "p", "l", "o", "a", "d", "-", "f", "i", "l", "e">>,
                         "POST", UploadHeaders(token), UploadForm(filePath, metadata)),
             res)

\* ------------------------------------------------------------------------
\* Tool results and the try/catch of a handler
\* ------------------------------------------------------------------------

ERROR_PREFIX == <<"E", "r", "r", "o", "r", ":", " ">>

\* success(text) and error(text); threw is TRUE for a handler whose promise
\* rejects instead
success(text) == [threw |-> FALSE, isError |-> FALSE, text |-> text]
error(text) == [threw |-> FALSE, isError |-> TRUE, text |-> ERROR_PREFIX \o text]
Escaped(msg) == [threw |-> TRUE, isError |-> FALSE, text |-> msg]

\* how the try block of a handler ends: return success(text), return
\* error(text), or an exception with a message; sent are the requests it
\* has issued
Returned(text, sent) == [threw |-> FALSE, isError |-> FALSE, text |-> text, sent |-> sent]
ReturnedError(text, sent) ==
    [threw |-> FALSE, isError |-> TRUE, text |-> text, sent |-> sent]
Thrown(msg, sent) == [threw |-> TRUE, isError |-> FALSE, text |-> msg, sent |-> sent]

\* a handler without catch: the exception of its try block escapes
tryCatch_rethrow(prefix, end) ==
    IF end.threw THEN Escaped(end.text)
    ELSE IF end.isError THEN error(end.text)
    ELSE success(end.text)

\* try { ... } catch (e) { return error(`${prefix}: ${e.message}`) }
tryCatch(prefix, end) ==
    IF end.threw THEN error(prefix \o <<":", " ">> \o end.text)
    ELSE IF end.isError THEN error(end.text)
    ELSE success(end.text)

\* what a handler leaves behind: its result, the requests it issued, the
\* Cookie Set and the session file
Handled(rslt, sent, cks, f) == [result |-> rslt, sent |-> sent, cookies |-> cks, file |-> f]

\* a handler whose whole body is a try block ending as end
Tried(prefix, end, cks, f) == Handled(tryCatch(prefix, end), end.sent, cks, f)

TYPE_ERROR == <<"C", "a", "n", "n", "o", "t", " ", "r", "e", "a", "d", " ", "p", "r", "o", "p",
      "e", "r", "t", "i", "e", "s", " ", "o", "f", " ", "u", "n", "d", "e", "f",
      "i", "n", "e", "d">>

\* truncate(text): at most 20000 characters and a marker
TRUNCATE_LIMIT == 20000
truncate(text) ==
    IF Len(text) <= TRUNCATE_LIMIT THEN text
    ELSE Prefix(text, TRUNCATE_LIMIT) \o <<NL>> \o <<".", ".", ".", " ", "[", "t", "r", "u", "n", "c", "a", "t", "e", "d", "]">>

\* a || b
OrElse(a, b) == IF Truthy(a) THEN a ELSE b

\* ------------------------------------------------------------------------
\* formatCommentThread and the text of get_comments
\* ------------------------------------------------------------------------

K_data == <<"d", "a", "t", "a">>
K_pagination == <<"p", "a", "g", "i", "n", "a", "t", "i", "o", "n">>
K_totalCount == <<"t", "o", "t", "a", "l", "C", "o", "u", "n", "t">>
K_author == <<"a", "u", "t", "h", "o", "r">>
K_displayName == <<"d", "i", "s", "p", "l", "a", "y", "N", "a", "m", "e">>
K_username == <<"u", "s", "e", "r", "n", "a", "m", "e">>
K_datePosted == <<"d", "a", "t", "e", "P", "o", "s", "t", "e", "d">>
K_text == <<"t", "e", "x", "t">>
K_body == <<"b", "o", "d", "y">>
K_replies == <<"r", "e", "p", "l", "i", "e", "s">>
K_id == <<"i", "d">>

QUESTION == JStr(<<"?">>)

THREAD_TEXT == 300
REPLY_TEXT == 200

\* a formatted piece, or the TypeError its formatting throws
Formatted(text) == [threw |-> FALSE, text |-> text]
FormatThrows == [threw |-> TRUE, text |-> TYPE_ERROR]

\* c.author?.displayName || c.author?.username || "?"
AuthorOf(c) ==
    OrElse(Field(Field(c, K_author), K_displayName),
           OrElse(Field(Field(c, K_author), K_username), QUESTION))

\* c.datePosted ? fmtDate(new Date(c.datePosted)) : "?", for a comment
\* without a date
DateOf(c) == CASE ~Truthy(Field(c, K_datePosted)) -> <<"?">>

\* (c.text || c.body || "")
TextOf(c) == OrElse(Field(c, K_text), OrElse(Field(c, K_body), JStr(<<>>)))

\* c.replies || []
RepliesOf(c) == OrElse(Field(c, K_replies), JArr(<<>>))

\* whether formatting comment c throws: c is null, its text has no slice()
\* or its replies cannot be iterated
CommentThrows(c) ==
    \/ c.t \in {"null", "undefined"}
    \/ TextOf(c).t # "str"
    \/ RepliesOf(c).t # "arr"

\* `[${c.id}] ${author} (${date}): ${text}`, the text cut at limit
CommentLine(c, flag, limit) ==
    <<"[">> \o TemplateText(Field(c, K_id)) \o <<"]", " ">> \o TemplateText(AuthorOf(c))
      \o <<" ", "(">> \o DateOf(c) \o <<")">> \o flag \o <<":", " ">>
      \o Prefix(TextOf(c).v, limit)

\* the indentation of a reply; its two box-drawing characters are written |_
REPLY_MARK == <<" ", " ", "|", "_", " ">>

RECURSIVE ReplyLines(_)
\* the lines the loop over the replies appends
ReplyLines(replies) ==
    IF replies = <<>> THEN Formatted(<<>>)
    ELSE IF CommentThrows(Head(replies)) \/ ReplyLines(Tail(replies)).threw
    THEN FormatThrows
    ELSE Formatted(<<NL>> \o REPLY_MARK \o CommentLine(Head(replies), <<>>, REPLY_TEXT)
                     \o ReplyLines(Tail(replies)).text)

\* formatCommentThread(c)
formatCommentThread(c) ==
    IF CommentThrows(c) \/ ReplyLines(RepliesOf(c).v).threw THEN FormatThrows
    ELSE Formatted(CommentLine(c, IF RepliesOf(c).v = <<>> THEN <<" ", "[", "N", "O", " ", "R", "E", "P", "L", "I", "E", "S", "]">>
                                  ELSE <<>>, THREAD_TEXT)
                     \o ReplyLines(RepliesOf(c).v).text)

\* !c.replies?.length
Unanswered(c) ==
    ~(Field(c, K_replies).t \in {"arr", "str"} /\ Field(c, K_replies).v # <<>>)

\* the text get_comments builds from the decoded response
CommentsText(data, page) ==
    IF data.t \in {"null", "undefined"} THEN FormatThrows
    ELSE IF OrElse(Field(data, K_data), JArr(<<>>)).t # "arr" THEN FormatThrows
    ELSE IF \E i \in 1..Len(OrElse(Field(data, K_data), JArr(<<>>)).v) :
               formatCommentThread(OrElse(Field(data, K_data), JArr(<<>>)).v[i]).threw
    THEN FormatThrows
    ELSE Formatted(
           TemplateText(OrElse(Field(Field(data, K_pagination), K_totalCount), QUESTION))
             \o <<" ", "c", "o", "m", "m", "e", "n", "t", "s", " ", "(", "p", "a", "g", "e", " ">> \o Decimal(page) \o <<")", ",", " ">>
             \o Decimal(Len(SelectSeq(OrElse(Field(data, K_data), JArr(<<>>)).v,
                                      Unanswered)))
             \o <<" ", "u", "n", "a", "n", "s", "w", "e", "r", "e", "d", ":">> \o <<NL, NL>>
             \o Join([i \in 1..Len(OrElse(Field(data, K_data), JArr(<<>>)).v) |->
                        formatCommentThread(
                            OrElse(Field(data, K_data), JArr(<<>>)).v[i]).text],
                     <<NL, NL>>))

\* ------------------------------------------------------------------------
\* The handlers of the Web tools
\* ------------------------------------------------------------------------

CF_BASE == <<"h", "t", "t", "p", "s", ":", "/", "/", "w", "w", "w", ".", "c", "u", "r", "s",
      "e", "f", "o", "r", "g", "e", ".", "c", "o", "m">>

\* the Authors API on the main site's host
AUTHORS_API_onMainSite == CF_BASE \o <<"/", "_", "a", "p", "i">>

AUTHORS_API == <<"h", "t", "t", "p", "s", ":", "/", "/", "a", "u", "t", "h", "o", "r", "s", ".",
      "c", "u", "r", "s", "e", "f", "o", "r", "g", "e", ".", "c", "o", "m", "/",
      "_", "a", "p", "i">>

NO_SESSION == <<"N", "o", " ", "s", "e", "s", "s", "i", "o", "n", " ", "c", "o", "o", "k", "i",
      "e", "s", ".", " ", "U", "s", "e", " ", "c", "f", "_", "a", "u", "t", "o",
      "_", "e", "x", "t", "r", "a", "c", "t", "_", "c", "o", "o", "k", "i", "e",
      "s", " ", "f", "i", "r", "s", "t", ".">>

\* `${b}` for a boolean
BoolText(b) == IF b THEN <<"t", "r", "u", "e">> ELSE <<"f", "a", "l", "s", "e">>

\* if (!client.hasCookies()) return error("No session cookies. ..."), in
\* front of the try block
Guarded(cks, f, handled) ==
    IF LengthThrows(cks) THEN Handled(Escaped(TYPE_ERROR), <<>>, cks, f)
    ELSE IF ~hasCookies(cks) THEN Handled(error(NO_SESSION), <<>>, cks, f)
    ELSE handled

\* the Cookie Set a request is built from: the field initializer's []
thisCookies_initial(cks) == EmptyCookies

\* the Cookie Set a request is built from: this.cookies at the time of the call
thisCookies(cks) == cks

\* client.get / post / put / delete
clientCall(cks, target, method, payload, res) ==
    request(thisCookies(cks), target, method, payload, NoHeaders, res)

\* a try block that awaits a client call and formats what it resolves to
FormatEnd(done, fmt) ==
    IF done.threw THEN Thrown(done.msg, done.sent)
    ELSE IF fmt.threw THEN Thrown(fmt.text, done.sent)
    ELSE Returned(fmt.text, done.sent)

\* a try block that awaits a client call and returns a fixed text
FixedEnd(done, text) ==
    IF done.threw THEN Thrown(done.msg, done.sent) ELSE Returned(text, done.sent)

\* the URL of get_comments
CommentsUrl(a) ==
    CF_BASE \o <<"/", "a", "p", "i", "/", "v", "1", "/", "m", "o", "d", "s", "/">> \o Decimal(a.mod_id) \o <<"/", "c", "o", "m", "m", "e", "n", "t", "s", "?", "i", "n", "d", "e", "x", "=">>
      \o Decimal((a.page - 1) * a.page_size) \o <<"&", "p", "a", "g", "e", "S", "i", "z", "e", "=">> \o Decimal(a.page_size)

GetCommentsEnd(done, page) ==
    FormatEnd(done, IF done.threw THEN FormatThrows ELSE CommentsText(done.value, page))

get_comments(cks, f, a, res) ==
    Guarded(cks, f,
            Tried(<<"g", "e", "t", "_", "c", "o", "m", "m", "e", "n", "t", "s">>,
                  GetCommentsEnd(clientCall(cks, CommentsUrl(a), "GET", JUndefined, res),
                                 a.page),
                  cks, f))

K_entityId == <<"e", "n", "t", "i", "t", "y", "I", "d">>
K_bodyType == <<"b", "o", "d", "y", "T", "y", "p", "e">>
K_parentCommentId == <<"p", "a", "r", "e", "n", "t", "C", "o", "m", "m", "e", "n", "t", "I", "d">>

\* the body of post_comment
CommentBody(a) ==
    JObj(<< Prop(K_entityId, JNum(Decimal(a.mod_id))), Prop(K_body, JStr(a.comment_text)),
            Prop(K_bodyType, JStr(<<"R", "a", "w", "H", "t", "m", "l">>)) >>
           \o (IF a.reply_to_id # JUndefined
               THEN <<Prop(K_parentCommentId, a.reply_to_id)>> ELSE <<>>))

post_comment(cks, f, a, res) ==
    Guarded(cks, f,
            Tried(<<"p", "o", "s", "t", "_", "c", "o", "m", "m", "e", "n", "t">>,
                  FixedEnd(clientCall(cks, CF_BASE \o <<"/", "a", "p", "i", "/", "v", "1", "/", "c", "o", "m", "m", "e", "n", "t", "s">>, "POST",
                                      CommentBody(a), res),
                           <<"C", "o", "m", "m", "e", "n", "t", " ", "p", "o", "s", "t", "e", "d", ".">>),
                  cks, f))

delete_comment(cks, f, a, res) ==
    Guarded(cks, f,
            Tried(<<"d", "e", "l", "e", "t", "e", "_", "c", "o", "m", "m", "e", "n", "t">>,
                  FixedEnd(clientCall(cks, CF_BASE \o <<"/", "a", "p", "i", "/", "v", "1", "/", "c", "o", "m", "m", "e", "n", "t", "s",
      "/">>
                                             \o Decimal(a.comment_id),
                                      "DELETE", JUndefined, res),
                           <<"C", "o", "m", "m", "e", "n", "t", " ">> \o Decimal(a.comment_id) \o <<" ", "d", "e", "l", "e", "t", "e", "d", ".">>),
                  cks, f))

\* success(truncate(compact(data)))
CompactEnd(done) ==
    FormatEnd(done, IF done.threw THEN FormatThrows
                    ELSE Formatted(truncate(Compact(done.value))))

get_project_settings(cks, f, a, res) ==
    Guarded(cks, f,
            Tried(<<"g", "e", "t", "_", "p", "r", "o", "j", "e", "c", "t", "_", "s", "e", "t", "t",
      "i", "n", "g", "s">>,
                  CompactEnd(clientCall(cks, AUTHORS_API \o <<"/", "p", "r", "o", "j", "e", "c", "t", "s", "/">>
                                               \o Decimal(a.project_id),
                                        "GET", JUndefined, res)),
                  cks, f))

K_description == <<"d", "e", "s", "c", "r", "i", "p", "t", "i", "o", "n">>
K_descriptionType == <<"d", "e", "s", "c", "r", "i", "p", "t", "i", "o", "n", "T", "y", "p", "e">>

\* { description, descriptionType: 1, id: project_id }
DescriptionBody(a) ==
    JObj(<< Prop(K_description, JStr(a.description)),
            Prop(K_descriptionType, JNum(<<"1">>)),
            Prop(K_id, JNum(Decimal(a.project_id))) >>)

update_project_description(cks, f, a, res) ==
    Guarded(cks, f,
            Tried(<<"u", "p", "d", "a", "t", "e", "_", "p", "r", "o", "j", "e", "c", "t", "_", "d",
      "e", "s", "c", "r", "i", "p", "t", "i", "o", "n">>,
                  FixedEnd(clientCall(cks, AUTHORS_API \o <<"/", "p", "r", "o", "j", "e", "c", "t", "s", "/", "d", "e", "s", "c", "r", "i",
      "p", "t", "i", "o", "n", "/">>
                                             \o Decimal(a.project_id),
                                      "PUT", DescriptionBody(a), res),
                           <<"D", "e", "s", "c", "r", "i", "p", "t", "i", "o", "n", " ", "u", "p", "d", "a",
      "t", "e", "d", ".">>),
                  cks, f))

\* url.startsWith("http") ? url : `${CF_BASE}${url}`
FullUrl(target) == IF StartsWith(target, <<"h", "t", "t", "p">>) THEN target ELSE CF_BASE \o target

\* whether cf_fetch_page hands a body to the client: POST and PUT with a
\* non-empty body argument
SendsBody(a) == a.method \in {"POST", "PUT"} /\ Truthy(a.body)

\* typeof data === "string" ? data : compact(data), truncated
PageEnd(done) ==
    FormatEnd(done, IF done.threw THEN FormatThrows
                    ELSE Formatted(truncate(IF done.value.t = "str" THEN done.value.v
                                            ELSE Compact(done.value))))

\* the try block of cf_fetch_page: JSON.parse(body) is evaluated before
\* the client is called
FetchPageEnd(cks, a, res) ==
    IF SendsBody(a) /\ ~JSONParse(a.body.v).ok THEN Thrown(NOT_JSON, <<>>)
    ELSE PageEnd(clientCall(cks, FullUrl(a.url), a.method,
                            IF SendsBody(a) THEN JSONParse(a.body.v).val ELSE JUndefined,
                            res))

cf_fetch_page(cks, f, a, res) == Tried(<<"c", "f", "_", "f", "e", "t", "c", "h", "_", "p", "a", "g", "e">>, FetchPageEnd(cks, a, res), cks, f)

EACCES == <<"E", "A", "C", "C", "E", "S", ":", " ", "p", "e", "r", "m", "i", "s", "s", "i",
      "o", "n", " ", "d", "e", "n", "i", "e", "d">>

\* the try block of cf_set_cookies
SetCookiesEnd(entries, wr) ==
    IF wr # "ok" THEN Thrown(EACCES, <<>>)
    ELSE Returned(<<"C", "o", "o", "k", "i", "e", "s", " ", "s", "a", "v", "e", "d", ".", " ", "S",
      "e", "s", "s", "i", "o", "n", " ", "a", "c", "t", "i", "v", "e", ":", " ">> \o BoolText(hasCookies(entries)),
                  <<>>)

cf_set_cookies(cks, f, raw, wr) ==
    Handled(tryCatch(<<"s", "e", "t", "_", "c", "o", "o", "k", "i", "e", "s">>, SetCookiesEnd(JArr(ParseCookieString(raw)), wr)),
            <<>>, JArr(ParseCookieString(raw)),
            saveCookies(JArr(ParseCookieString(raw)), f, wr))

\* the names of the browsers and the messages of the extractor, as text
BrowserText(browser) ==
    CASE browser = "Chrome" -> <<"C", "h", "r", "o", "m", "e">>
      [] browser = "Firefox" -> <<"F", "i", "r", "e", "f", "o", "x">>
      [] browser = "Edge" -> <<"E", "d", "g", "e">>
      [] browser = "Brave" -> <<"B", "r", "a", "v", "e">>
      [] browser = "Chromium" -> <<"C", "h", "r", "o", "m", "i", "u", "m">>
      [] browser = "Opera" -> <<"O", "p", "e", "r", "a">>
      [] browser = "Opera GX" -> <<"O", "p", "e", "r", "a", " ", "G", "X">>
      [] browser = "Vivaldi" -> <<"V", "i", "v", "a", "l", "d", "i">>
      [] browser = "Arc" -> <<"A", "r", "c">>
      [] browser = "LibreWolf" -> <<"L", "i", "b", "r", "e", "W", "o", "l", "f">>
      [] browser = "OctoBrowser" -> <<"O", "c", "t", "o", "B", "r", "o", "w", "s", "e", "r">>
      [] browser = "Internet Explorer" -> <<"I", "n", "t", "e", "r", "n", "e", "t", " ", "E", "x", "p", "l", "o", "r", "e",
      "r">>

\* the string autoExtractCookies returns
ExtractText(ret) ==
    CASE ret.kind = "extracted" ->
           <<"E", "x", "t", "r", "a", "c", "t", "e", "d", " ">> \o Decimal(ret.n) \o <<" ", "c", "o", "o", "k", "i", "e", "s", " ", "f", "r", "o", "m", " ">> \o BrowserText(ret.browser)
      [] ret.kind = "failed" -> <<"A", "u", "t", "o", "-", "e", "x", "t", "r", "a", "c", "t", "i", "o", "n", " ",
      "f", "a", "i", "l", "e", "d", ":", " ">> \o EACCES
      [] ret.kind = "none" /\ ret.text = LIB_UNAVAILABLE ->
           <<"@", "r", "o", "o", "k", "i", "e", "-", "r", "s", "/", "a", "p", "i",
             " ", "n", "o", "t", " ", "a", "v", "a", "i", "l", "a", "b", "l", "e",
             " ", "o", "n", " ", "t", "h", "i", "s", " ", "p", "l", "a", "t", "f",
             "o", "r", "m", ".", " ", "U", "s", "e", " ", "c", "f", "_", "s", "e",
             "t", "_", "c", "o", "o", "k", "i", "e", "s", " ", "t", "o", " ", "s",
             "e", "t", " ", "c", "o", "o", "k", "i", "e", "s", " ", "m", "a", "n",
             "u", "a", "l", "l", "y", ".">>
      [] ret.kind = "none" /\ ret.text = NO_BROWSER ->
           <<"N", "o", " ", "b", "r", "o", "w", "s", "e", "r", " ", "h", "a", "d", " ", "c",
      "u", "r", "s", "e", "f", "o", "r", "g", "e", ".", "c", "o", "m", " ", "c",
      "o", "o", "k", "i", "e", "s">>

\* the try block of cf_auto_extract_cookies, autoExtractCookies having ended as r
AutoExtractEnd(r) ==
    Returned(ExtractText(r.ret) \o <<NL>> \o <<"S", "e", "s", "s", "i", "o", "n", " ", "a", "c", "t", "i", "v", "e", ":", " ">>
               \o BoolText(hasCookies(r.cookies)),
             <<>>)

AutoExtractHandled(r) ==
    Handled(tryCatch(<<"a", "u", "t", "o", "_", "e", "x", "t", "r", "a", "c", "t">>, AutoExtractEnd(r)), <<>>, r.cookies, r.file)

cf_auto_extract_cookies(cks, f, env, wr) ==
    AutoExtractHandled(autoExtractCookies(cks, f, env, wr))

\* ------------------------------------------------------------------------
\* The handlers of the Upload tools
\* ------------------------------------------------------------------------

K_changelog == <<"c", "h", "a", "n", "g", "e", "l", "o", "g">>
K_changelogType == <<"c", "h", "a", "n", "g", "e", "l", "o", "g", "T", "y", "p", "e">>
K_gameVersions == <<"g", "a", "m", "e", "V", "e", "r", "s", "i", "o", "n", "s">>
K_releaseType == <<"r", "e", "l", "e", "a", "s", "e", "T", "y", "p", "e">>
K_projects == <<"p", "r", "o", "j", "e", "c", "t", "s">>
K_relations == <<"r", "e", "l", "a", "t", "i", "o", "n", "s">>
K_slug == <<"s", "l", "u", "g">>
K_gameVersionTypeID == <<"g", "a", "m", "e", "V", "e", "r", "s", "i", "o", "n", "T", "y", "p", "e", "I",
      "D">>

\* the UploadMetadata upload_file builds from its parameters
UploadMetadata(a) ==
    JObj(<< Prop(K_changelog, a.changelog), Prop(K_changelogType, a.changelog_type),
            Prop(K_displayName, a.display_name),
            Prop(K_gameVersions, OrElse(a.game_version_ids, JArr(<<>>))),
            Prop(K_releaseType, a.release_type) >>
           \o (IF Truthy(a.relations) /\ a.relations.v # <<>>
               THEN <<Prop(K_relations, JObj(<<Prop(K_projects, a.relations)>>))>>
               ELSE <<>>))

\* `File uploaded. File ID: ${result.id}`
UploadedText(val) ==
    IF val.t \in {"null", "undefined"} THEN FormatThrows
    ELSE Formatted(<<"F", "i", "l", "e", " ", "u", "p", "l", "o", "a", "d", "e", "d", ".", " ", "F",
      "i", "l", "e", " ", "I", "D", ":", " ">> \o TemplateText(Field(val, K_id)))

UploadFileEnd(done) ==
    FormatEnd(done, IF done.threw THEN FormatThrows ELSE UploadedText(done.value))

upload_file(token, cks, f, a, res) ==
    Tried(<<"u", "p", "l", "o", "a", "d", "_", "f", "i", "l", "e">>,
          UploadFileEnd(uploadFile(token, a.project_id, a.file_path, a.readable,
                                   UploadMetadata(a), res)),
          cks, f)

\* `[${v.id}] ${v.name} (type: ${v.gameVersionTypeID})`
VersionLine(v) ==
    <<"[">> \o TemplateText(Field(v, K_id)) \o <<"]", " ">> \o TemplateText(Field(v, K_name))
      \o <<" ", "(", "t", "y", "p", "e", ":", " ">> \o TemplateText(Field(v, K_gameVersionTypeID)) \o <<")">>

\* `[${t.id}] ${t.name} (${t.slug})`
TypeLine(t) ==
    <<"[">> \o TemplateText(Field(t, K_id)) \o <<"]", " ">> \o TemplateText(Field(t, K_name))
      \o <<" ", "(">> \o TemplateText(Field(t, K_slug)) \o <<")">>

\* whether items.map(line) throws: items is no array or has a null element
MapLinesThrows(items) ==
    \/ items.t # "arr"
    \/ \E i \in 1..Len(items.v) : items.v[i].t \in {"null", "undefined"}

\* `${versions.length} game versions:\n${lines.join("\n")}`
VersionsText(versions) ==
    IF MapLinesThrows(versions) THEN FormatThrows
    ELSE Formatted(Decimal(Len(versions.v)) \o <<" ", "g", "a", "m", "e", " ", "v", "e", "r", "s", "i", "o", "n", "s", ":">> \o <<NL>>
                     \o Join(Map(versions.v, VersionLine), <<NL>>))

\* `${types.length} version types:\n${lines.join("\n")}`
TypesText(types) ==
    IF MapLinesThrows(types) THEN FormatThrows
    ELSE Formatted(Decimal(Len(types.v)) \o <<" ", "v", "e", "r", "s", "i", "o", "n", " ", "t", "y", "p", "e", "s", ":">> \o <<NL>>
                     \o Join(Map(types.v, TypeLine), <<NL>>))

VersionsEnd(done) ==
    FormatEnd(done, IF done.threw THEN FormatThrows ELSE VersionsText(done.value))
TypesEnd(done) ==
    FormatEnd(done, IF done.threw THEN FormatThrows ELSE TypesText(done.value))

get_upload_game_versions(token, cks, f, res) ==
    Tried(<<"g", "e", "t", "_", "u", "p", "l", "o", "a", "d", "_", "g", "a", "m", "e", "_",
      "v", "e", "r", "s", "i", "o", "n", "s">>, VersionsEnd(getGameVersions(token, res)), cks, f)

get_upload_game_version_types(token, cks, f, res) ==
    Tried(<<"g", "e", "t", "_", "u", "p", "l", "o", "a", "d", "_", "v", "e", "r", "s", "i",
      "o", "n", "_", "t", "y", "p", "e", "s">>, TypesEnd(getGameVersionTypes(token, res)), cks, f)

NO_SUCH_METHOD == <<"c", "l", "i", "e", "n", "t", ".", "g", "e", "t", "G", "a", "m", "e", "D", "e",
      "p", "e", "n", "d", "e", "n", "c", "i", "e", "s", " ", "i", "s", " ", "n",
      "o", "t", " ", "a", " ", "f", "u", "n", "c", "t", "i", "o", "n">>

\* the Upload client has no getGameDependencies: the call throws a TypeError
get_upload_dependencies(token, cks, f, res) ==
    Tried(<<"g", "e", "t", "_", "u", "p", "l", "o", "a", "d", "_", "d", "e", "p", "e", "n",
      "d", "e", "n", "c", "i", "e", "s">>, Thrown(NO_SUCH_METHOD, <<>>), cks, f)

\* ------------------------------------------------------------------------
\* The handlers of the CFWidget tools
\* ------------------------------------------------------------------------

K_title == <<"t", "i", "t", "l", "e">>
K_game == <<"g", "a", "m", "e">>
K_type == <<"t", "y", "p", "e">>
K_summary == <<"s", "u", "m", "m", "a", "r", "y">>
K_downloads == <<"d", "o", "w", "n", "l", "o", "a", "d", "s">>
K_total == <<"t", "o", "t", "a", "l">>

\* the downloads part of formatProject, for a project without a total
DownloadsOf(p) == CASE ~Truthy(Field(Field(p, K_downloads), K_total)) -> <<>>

\* formatProject(p)
formatProject(p) ==
    IF p.t \in {"null", "undefined"} THEN FormatThrows
    ELSE Formatted(
           <<"[">> \o TemplateText(Field(p, K_id)) \o <<"]", " ">>
             \o TemplateText(OrElse(Field(p, K_title), Field(p, K_name))) \o DownloadsOf(p)
             \o (IF Truthy(Field(p, K_game))
                 THEN <<" ", "|", " ">> \o TemplateText(Field(p, K_game)) ELSE <<>>)
             \o (IF Truthy(Field(p, K_type))
                 THEN <<"/">> \o TemplateText(Field(p, K_type)) ELSE <<>>)
             \o (IF Truthy(Field(p, K_summary))
                 THEN <<NL, " ", " ">> \o TemplateText(Field(p, K_summary)) ELSE <<>>))

ProjectEnd(done) ==
    FormatEnd(done, IF done.threw THEN FormatThrows ELSE formatProject(done.value))

get_project(cks, f, a, res) ==
    Tried(<<"g", "e", "t", "_", "p", "r", "o", "j", "e", "c", "t">>, ProjectEnd(getProject(a.project, res)), cks, f)

\* `[${p.id}] ${p.name}`
ProjectLine(p) ==
    <<"[">> \o TemplateText(Field(p, K_id)) \o <<"]", " ">> \o TemplateText(Field(p, K_name))

\* the text search_author builds from the decoded response
AuthorText(data) ==
    IF data.t \in {"null", "undefined"} THEN FormatThrows
    ELSE IF MapLinesThrows(OrElse(Field(data, K_projects), JArr(<<>>))) THEN FormatThrows
    ELSE Formatted(
           <<"A", "u", "t", "h", "o", "r", ":", " ">> \o TemplateText(Field(data, K_username)) \o <<" ", "(", "I", "D", ":", " ">>
             \o TemplateText(Field(data, K_id)) \o <<")", NL>> \o <<"P", "r", "o", "j", "e", "c", "t", "s", " ", "(">>
             \o Decimal(Len(OrElse(Field(data, K_projects), JArr(<<>>)).v))
             \o <<")", ":", NL>>
             \o Join(Map(OrElse(Field(data, K_projects), JArr(<<>>)).v, ProjectLine),
                     <<NL>>))

AuthorEnd(done) ==
    FormatEnd(done, IF done.threw THEN FormatThrows ELSE AuthorText(done.value))

search_author(cks, f, a, res) ==
    Tried(<<"s", "e", "a", "r", "c", "h", "_", "a", "u", "t", "h", "o", "r">>, AuthorEnd(searchAuthor(a.username, res)), cks, f)

\* ------------------------------------------------------------------------
\* The handlers of the catalog tools
\* ------------------------------------------------------------------------

\* the name of a catalog tool as text
ToolText(tool) ==
    CASE tool = "search_mods" -> <<"s", "e", "a", "r", "c", "h", "_", "m", "o", "d", "s">>
      [] tool = "get_mod" -> <<"g", "e", "t", "_", "m", "o", "d">>
      [] tool = "get_mod_files" -> <<"g", "e", "t", "_", "m", "o", "d", "_", "f", "i", "l", "e", "s">>
      [] tool = "get_mod_file" -> <<"g", "e", "t", "_", "m", "o", "d", "_", "f", "i", "l", "e">>
      [] tool = "get_mod_description" -> <<"g", "e", "t", "_", "m", "o", "d", "_", "d", "e", "s", "c", "r", "i", "p", "t",
      "i", "o", "n">>
      [] tool = "get_mod_changelog" -> <<"g", "e", "t", "_", "m", "o", "d", "_", "c", "h", "a", "n", "g", "e", "l", "o",
      "g">>
      [] tool = "get_download_url" -> <<"g", "e", "t", "_", "d", "o", "w", "n", "l", "o", "a", "d", "_", "u", "r", "l">>
      [] tool = "download_mod" -> <<"d", "o", "w", "n", "l", "o", "a", "d", "_", "m", "o", "d">>
      [] tool = "get_featured_mods" -> <<"g", "e", "t", "_", "f", "e", "a", "t", "u", "r", "e", "d", "_", "m", "o", "d",
      "s">>
      [] tool = "get_mods_batch" -> <<"g", "e", "t", "_", "m", "o", "d", "s", "_", "b", "a", "t", "c", "h">>
      [] tool = "get_categories" -> <<"g", "e", "t", "_", "c", "a", "t", "e", "g", "o", "r", "i", "e", "s">>
      [] tool = "get_game_versions" -> <<"g", "e", "t", "_", "g", "a", "m", "e", "_", "v", "e", "r", "s", "i", "o", "n",
      "s">>

LIBRARY_ERROR == <<"R", "e", "q", "u", "e", "s", "t", " ", "f", "a", "i", "l", "e", "d", " ", "w",
      "i", "t", "h", " ", "s", "t", "a", "t", "u", "s", " ", "c", "o", "d", "e",
      " ", "4", "0", "3">>
RESTRICTED ==
    <<"T", "h", "i", "s", " ", "f", "i", "l", "e", " ", "d", "o", "e", "s", " ", "n",
      "o", "t", " ", "a", "l", "l", "o", "w", " ", "d", "i", "r", "e", "c", "t",
      " ", "d", "o", "w", "n", "l", "o", "a", "d", "s", " ", "(", "m", "o", "d",
      " ", "a", "u", "t", "h", "o", "r", " ", "h", "a", "s", " ", "r", "e", "s",
      "t", "r", "i", "c", "t", "e", "d", " ", "d", "i", "s", "t", "r", "i", "b",
      "u", "t", "i", "o", "n", ")", ".", " ", "U", "s", "e", " ", "t", "h", "e",
      " ", "C", "u", "r", "s", "e", "F", "o", "r", "g", "e", " ", "a", "p", "p",
      " ", "i", "n", "s", "t", "e", "a", "d", ".">>
NO_BODY == <<"N", "o", " ", "r", "e", "s", "p", "o", "n", "s", "e", " ", "b", "o", "d", "y",
      " ", "r", "e", "c", "e", "i", "v", "e", "d", " ", "f", "r", "o", "m", " ",
      "d", "o", "w", "n", "l", "o", "a", "d", " ", "s", "e", "r", "v", "e", "r">>
DOWNLOAD_URL == <<"h", "t", "t", "p", "s", ":", "/", "/", "e", "d", "g", "e", ".", "f", "o", "r",
      "g", "e", "c", "d", "n", ".", "n", "e", "t", "/", "f", "i", "l", "e", "s",
      "/", "1", "/", "2", "/", "m", "o", "d", ".", "j", "a", "r">>
FILE_NAME == <<"m", "o", "d", ".", "j", "a", "r">>

\* the request download_mod makes for the file itself
DownloadRequest == HttpRequest(DOWNLOAD_URL, "GET", NoHeaders, JUndefined)

\* the try block of a catalog handler, by what the Core client and the
\* formatting of its answer do: the call rejects, the formatting throws, or
\* a text is returned (the name of the tool stands for the formatted text)
CatalogEnd(tool, how) ==
    CASE how = "rejects" -> Thrown(LIBRARY_ERROR, <<>>)
      [] how = "malformed" -> Thrown(TYPE_ERROR, <<>>)
      [] how = "formatted" -> Returned(ToolText(tool), <<>>)

\* the try block of download_mod
DownloadEnd(how) ==
    CASE how = "rejects" -> Thrown(LIBRARY_ERROR, <<>>)
      [] how = "restricted" -> ReturnedError(RESTRICTED, <<>>)
      [] how = "unreachable" -> Thrown(FETCH_FAILED, <<DownloadRequest>>)
      [] how = "not-ok" ->
           ReturnedError(<<"H", "T", "T", "P", " ", "4", "0", "4", " ", "N", "o", "t", " ", "F", "o", "u",
      "n", "d", " ", "d", "o", "w", "n", "l", "o", "a", "d", "i", "n", "g", " ">> \o FILE_NAME,
                         <<DownloadRequest>>)
      [] how = "no-body" -> ReturnedError(NO_BODY, <<DownloadRequest>>)
      [] how = "unwritable" -> Thrown(EACCES, <<DownloadRequest>>)
      [] how = "downloaded" ->
           Returned(<<"D", "o", "w", "n", "l", "o", "a", "d", "e", "d", ":", " ">> \o FILE_NAME, <<DownloadRequest>>)

CatalogOutcomes == {"rejects", "malformed", "formatted"}
DownloadOutcomes ==
    {"rejects", "restricted", "unreachable", "not-ok", "no-body", "unwritable",
     "downloaded"}

\* the handler of a catalog tool
catalogTool(tool, cks, f, how) ==
    Tried(ToolText(tool),
          IF tool = "download_mod" THEN DownloadEnd(how) ELSE CatalogEnd(tool, how),
          cks, f)

\* ------------------------------------------------------------------------
\* State
\* ------------------------------------------------------------------------

VARIABLES
    pc,          \* "start": not started; "running": serving; "crashed": startup rejected
    config,      \* the Config read from the environment
    coreClient,  \* createServer's coreClient: "client" or "null"
    registered,  \* the names of the tools registered on the McpServer
    cookies,     \* WebClient.cookies
    file,        \* the session file at config.cookiesPath
    last,        \* the most recent operation of this process and its outcome
    persisted,   \* the operation that last wrote the file and the set it wrote
    input,       \* the argument of a function applied on its own
    output,      \* its result
    bstate,      \* the browser session: uninitialized, launching, ...
    launches,    \* the number of browser sessions launched
    polls,       \* the polls of the challenge indicator so far
    warned,      \* whether the challenge timeout has been logged
    callers,     \* each caller of request(): where it is and how many calls it made
    twin,        \* a browser-mediated WebClient run beside the direct one
    call,        \* the most recent tool call: the tool, its arguments, what the backend does
    http,        \* the outbound HTTP requests that call has issued, in order
    result,      \* what the tool's handler returned, or that it threw
    channels     \* the diagnostics the process has written, by channel

serverVars == <<config, coreClient, registered>>
storeVars == <<pc, cookies, file, last, persisted>>
pureVars == <<input, output>>
browserVars == <<bstate, launches, polls, warned, callers, twin>>
toolVars == <<call, http, result>>
vars == <<pc, config, coreClient, registered, cookies, file, last, persisted,
          input, output, bstate, launches, polls, warned, callers, twin,
          call, http, result, channels>>

\* ------------------------------------------------------------------------
\* Inputs
\* ------------------------------------------------------------------------

S_sid == <<"s", "i", "d">>
S_xsrf_lower == <<"x", "s", "r", "f", "-", "t", "o", "k", "e", "n">>
S_quoted == <<"a", Quote, Backslash, "b">>
S_t1 == <<"t", "1">>
S_t2 == <<"t", "2">>

\* the entries setCookies is called with: an ordinary cookie whose value
\* needs escaping, and two anti-forgery cookies under different spellings
Entries == { CookieEntry(S_sid, S_quoted, CF_DOMAIN, ROOT_PATH),
             CookieEntry(S_xsrf_lower, S_t1, CF_DOMAIN, ROOT_PATH),
             CookieEntry(X_XSRF_TOKEN, S_t2, CF_DOMAIN, ROOT_PATH) }

\* the Cookie Sets of at most MaxCookies entries, duplicates allowed
CookieSets == UNION {[1..n -> Entries] : n \in 0..MaxCookies}

\* "a=1; b=2; malformed; c=3"
ExampleString == <<"a", "=", "1", ";", " ", "b", "=", "2", ";", " ",
                   "m", "a", "l", "f", "o", "r", "m", "e", "d", ";", " ",
                   "c", "=", "3">>

\* the cookie strings the running server is given
ServerStrings == { ExampleString, <<>>, <<"m", "a", "l">>,
                   <<"X", "s", "r", "f", "-", "T", "o", "k", "e", "n", "=", "9",
                     ";", "s", "i", "d", "=", "1">> }

RawAlphabet == {"a", "=", ";", " "}
\* every cookie string of at most MaxRaw characters, and the example
RawStrings == UNION {[1..n -> RawAlphabet] : n \in 0..MaxRaw} \cup {ExampleString}

RawA == << CookieObject(S_sid, S_t1, CF_DOMAIN, ROOT_PATH, TRUE),
           CookieObject(XSRF_TOKEN, S_t2, CF_DOMAIN, ROOT_PATH, FALSE) >>
RawB == << CookieObject(S_sid, S_quoted, CF_DOMAIN, ROOT_PATH, TRUE) >>

\* an environment in which the library loads, browser first is the first
\* with cookies (raw), the browsers before it do pre and those after do post
BrowserEnv(first, pre, post, raw) ==
    [lib |-> TRUE,
     out |-> [i \in 1..Len(Browsers) |->
                 IF i = first THEN Returns(raw)
                 ELSE LET how == IF i < first THEN pre ELSE post
                      IN  IF how = "throw" THEN Throws
                          ELSE IF how = "empty" THEN Returns(<<>>)
                          ELSE IF how = "mixed"
                          THEN (IF i % 2 = 1 THEN Throws ELSE Returns(<<>>))
                          ELSE Returns(RawB)]]

NoLibrary == [lib |-> FALSE, out |-> [i \in 1..Len(Browsers) |-> Throws]]

\* the environments of the extractor on its own: every position of the
\* first browser with cookies (13: none), every behaviour around it
ExtractEnvs ==
    {NoLibrary} \cup
    { BrowserEnv(first, pre, post, raw) :
        first \in 1..(Len(Browsers) + 1), pre \in {"throw", "empty", "mixed"},
        post \in {"throw", "empty", "cookies"}, raw \in {RawA, RawB} }

\* the environments of the running server: no library, no browser with
\* cookies, browsers 1-2 throw and browser 3 has two, browser 1 has one
ServerEnvs == { NoLibrary,
                BrowserEnv(Len(Browsers) + 1, "mixed", "empty", RawA),
                BrowserEnv(3, "throw", "cookies", RawA),
                BrowserEnv(1, "throw", "empty", RawB) }

WriteOutcomes == {"ok", "fail"}

\* the session files a process can find at startup
InitFiles ==
    { MissingFile, UnreadableFile,
      TextFile(<<>>),
      TextFile(<<"[", "{">>),
      TextFile(<<"n", "u", "l", "l">>),
      TextFile(<<"{", "}">>),
      TextFile(<<"5">>),
      TextFile(<<Quote, "a", "b", Quote>>),
      TextFile(<<"[", "]", NL>>),
      TextFile(JSONStringify(JArr(<<CookieEntry(S_sid, S_t1, CF_DOMAIN, ROOT_PATH)>>))) }

Configs == [curseforgeApiKey : {"", "key"}, curseforgeAuthorToken : {"", "token"}]
FullConfig == [curseforgeApiKey |-> "key", curseforgeAuthorToken |-> "token"]

CtorOutcomes == {"ok", "throw"}

\* ------------------------------------------------------------------------
\* Inputs of the dispatchers
\* ------------------------------------------------------------------------

BODY_JSON == <<"{", Quote, "a", Quote, ":", "1", "}">>
BODY_HTML == <<"<", "h", "t", "m", "l", ">", "n", "o", "t", " ", "f", "o", "u", "n", "d", "<",
      "/", "h", "t", "m", "l", ">">>
\* a body of n characters
LongBody(n) == [i \in 1..n |-> "x"]

JSON_UTF8 == <<"a", "p", "p", "l", "i", "c", "a", "t", "i", "o", "n", "/", "j", "s", "o", "n",
      ";", " ", "c", "h", "a", "r", "s", "e", "t", "=", "u", "t", "f", "-", "8">>
TEXT_HTML == <<"t", "e", "x", "t", "/", "h", "t", "m", "l">>

\* what the network answers a Web client request with
Responses ==
    {NetworkFailure} \cup
    { Response(status, ctype, payload, readable) :
        status \in {200, 204, 301, 404, 500},
        ctype \in {JNull, JStr(APPLICATION_JSON), JStr(JSON_UTF8), JStr(TEXT_HTML)},
        payload \in {<<>>, BODY_JSON, BODY_HTML, LongBody(WEB_EXCERPT),
                     LongBody(WEB_EXCERPT + MaxOver)},
        readable \in {"ok", "fail"} }

\* the values this.cookies has in a running server: arrays, and what files
\* holding {} or a JSON string leave behind
SessionCookies ==
    JArr(<< CookieEntry(S_sid, S_t1, CF_DOMAIN, ROOT_PATH),
            CookieEntry(S_xsrf_lower, S_t2, CF_DOMAIN, ROOT_PATH) >>)
RequestCookies == {EmptyCookies, SessionCookies, JObj(<<>>)}

\* a Cookie Set whose anti-forgery cookie has the empty string as value
BlankTokenCookies ==
    JArr(<< CookieEntry(S_sid, S_t1, CF_DOMAIN, ROOT_PATH),
            CookieEntry(S_xsrf_lower, <<>>, CF_DOMAIN, ROOT_PATH) >>)

\* the headers a caller of get/post/put/delete passes as extraHeaders
HeaderNames ==
    {"User-Agent", "Cookie", "Accept", "Origin", "Referer", "Content-Type", "X-XSRF-TOKEN"}
CallerValue == <<"m", "i", "n", "e">>
ExtraHeaders ==
    { [h \in names |-> CallerValue] :
        names \in {{"X-XSRF-TOKEN"}, {"User-Agent", "Cookie"}, {"Content-Type", "Accept"},
                   {"Origin", "Referer", "X-XSRF-TOKEN"}, HeaderNames} }

URL_COMMENTS == <<"h", "t", "t", "p", "s", ":", "/", "/", "w", "w", "w", ".", "c", "u", "r", "s",
      "e", "f", "o", "r", "g", "e", ".", "c", "o", "m", "/", "a", "p", "i", "/",
      "v", "1", "/", "c", "o", "m", "m", "e", "n", "t", "s">>
URL_PROJECT == <<"h", "t", "t", "p", "s", ":", "/", "/", "a", "u", "t", "h", "o", "r", "s", ".",
      "c", "u", "r", "s", "e", "f", "o", "r", "g", "e", ".", "c", "o", "m", "/",
      "_", "a", "p", "i", "/", "p", "r", "o", "j", "e", "c", "t", "s", "/", "4", "2">>
URL_NOT_A_URL == <<"h", "t", "t", "p", "x">>

\* the calls of request(): get(url) and post(url, body)
RequestCalls ==
    [cookies : RequestCookies, url : {URL_COMMENTS, URL_PROJECT, URL_NOT_A_URL},
     method : {"GET"}, body : {JUndefined}, extra : {NoHeaders}, res : Responses]
    \cup
    [cookies : RequestCookies, url : {URL_COMMENTS},
     method : {"POST"}, body : {JObj(<<Prop(K_entityId, JNum(<<"7">>))>>)},
     extra : {NoHeaders}, res : Responses]
    \cup
    [cookies : {EmptyCookies, SessionCookies, BlankTokenCookies}, url : {URL_COMMENTS},
     method : {"GET", "PUT"},
     body : {JUndefined, JObj(<<Prop(K_entityId, JNum(<<"7">>))>>)},
     extra : ExtraHeaders, res : {NetworkFailure}]

\* what the network answers the CFWidget client and the Upload client with
CfWidgetResponses ==
    {NetworkFailure} \cup
    { Response(status, ctype, payload, readable) :
        status \in {200, 404}, ctype \in {JNull, JStr(APPLICATION_JSON)},
        payload \in {<<>>, BODY_JSON, LongBody(CFWIDGET_EXCERPT + MaxOver)},
        readable \in {"ok", "fail"} }
UploadResponses ==
    {NetworkFailure} \cup
    { Response(status, ctype, payload, readable) :
        status \in {200, 403, 500}, ctype \in {JStr(APPLICATION_JSON)},
        payload \in {<<>>, BODY_JSON, BODY_HTML, LongBody(WEB_EXCERPT + MaxOver)},
        readable \in {"ok", "fail"} }

PROJECT_PATH == <<"/", "m", "i", "n", "e", "c", "r", "a", "f", "t", "/", "m", "c", "-", "m", "o",
      "d", "s", "/", "j", "e", "i">>
PROJECT_ID == <<"2", "3", "8", "2", "2", "2">>
AUTHOR_NAME == <<"a", " ", "b", "/", "c">>

CfWidgetCalls ==
    [fn : {"getProject"}, arg : [text : {PROJECT_PATH, PROJECT_ID}, res : CfWidgetResponses]]
    \cup [fn : {"searchAuthor"}, arg : [text : {AUTHOR_NAME}, res : CfWidgetResponses]]

FILE_PATH == <<"/", "t", "m", "p", "/", "b", "u", "i", "l", "d", "/", "m", "o", "d", ".", "j",
      "a", "r">>


\* the UploadMetadata of an upload without changelog or display name
Metadata ==
    JObj(<< Prop(K_changelog, JUndefined), Prop(K_changelogType, JStr(<<"m", "a", "r", "k", "d", "o", "w", "n">>)),
            Prop(K_displayName, JUndefined), Prop(K_gameVersions, JArr(<<>>)),
            Prop(K_releaseType, JStr(<<"r", "e", "l", "e", "a", "s", "e">>)) >>)

UploadCalls ==
    [fn : {"getGameVersions", "getGameVersionTypes"},
     arg : [token : {"token"}, res : UploadResponses]]
    \cup [fn : {"uploadFile"},
          arg : [token : {"token"}, projectId : {42}, filePath : {FILE_PATH},
                 readable : BOOLEAN, metadata : {Metadata}, res : UploadResponses]]

\* ------------------------------------------------------------------------
\* Operations
\* ------------------------------------------------------------------------

\* console.error(msg) for each of msgs
consoleError(chs, msgs) == [chs EXCEPT !.stderr = @ \cup msgs]

\* what an extraction that ended with ret has logged: the extractor's line
\* for the browser it took the cookies from, and the catch block's line of
\* autoExtractCookies
ExtractionLog(ret) ==
    CASE ret.kind = "extracted" -> {"[cookie-extractor] cookies from browser"}
      [] ret.kind = "failed" -> {"[cookie-extractor] cookies from browser",
                                 "[web-client] Auto-extract failed"}
      [] ret.kind = "none" -> {}

\* the lines of createServer's Core API block
CoreLog(cfg, lib) ==
    IF cfg.curseforgeApiKey = ""
    THEN {"[curseforge-mcp] No CURSEFORGE_API_KEY"}
    ELSE IF lib = "ok" THEN {"[curseforge-mcp] Core API client ready"}
    ELSE {"[curseforge-mcp] Failed to init Core API"}

\* the lines of createServer's Upload API block
UploadLog(cfg) ==
    IF cfg.curseforgeAuthorToken = ""
    THEN {"[curseforge-mcp] No CURSEFORGE_AUTHOR_TOKEN"}
    ELSE {"[curseforge-mcp] Upload API tools registered"}

\* the lines that follow webClient.init(): createServer's last line and the
\* line after server.connect, or the line of the catch of a rejected startup
WebLog(web) ==
    IF web.threw THEN {"[curseforge-mcp] Fatal error:"}
    ELSE {IF hasCookies(web.cookies)
          THEN "[curseforge-mcp] Web API tools registered (cookies: loaded)"
          ELSE "[curseforge-mcp] Web API tools registered (cookies: none)",
          "[curseforge-mcp] Server running on stdio"}

\* everything a starting process logs
StartupLog(cfg, lib, web) ==
    CoreLog(cfg, lib) \cup UploadLog(cfg) \cup ExtractionLog(web.ret) \cup WebLog(web)

\* no tool has been called and nothing has been written
NoCall == [tool |-> "none"]
NoResult == [threw |-> FALSE, isError |-> FALSE, text |-> <<>>]
NoOutput == [stdout |-> {}, stderr |-> {}]

NoOp == [op |-> "none", arg |-> <<>>, ok |-> TRUE, ret |-> NotExtracted(""),
         loaded |-> JUndefined]
Op(op, arg, ok, ret, loaded) ==
    [op |-> op, arg |-> arg, ok |-> ok, ret |-> ret, loaded |-> loaded]

NothingPersisted == [by |-> "none", set |-> EmptyCookies]
Persisted(by, set) == [by |-> by, set |-> set]

\* what a starting process finds: the session file and what the
\* curseforge-api constructor does ("none" when no Core client is built)
Found(f, lib) == [file |-> f, lib |-> lib]

\* the effect of a started Web client on the store's variables
Started(web, found) ==
    /\ pc' = IF web.threw THEN "crashed" ELSE "running"
    /\ cookies' = web.cookies
    /\ file' = web.file
    /\ last' = Op("start", found, ~web.threw, web.ret, web.loaded)
    /\ persisted' = IF web.ret.kind = "extracted"
                    THEN Persisted("autoExtractCookies", web.cookies)
                    ELSE persisted

\* a process constructs its WebClient and awaits init()
StartWebClient ==
    /\ pc = "start"
    /\ \E env \in ServerEnvs, wr \in WriteOutcomes :
          /\ Started(StartClient(file, env, wr), Found(file, "none"))
          /\ channels' = consoleError(channels,
                                      ExtractionLog(StartClient(file, env, wr).ret))
    /\ UNCHANGED <<serverVars, pureVars, browserVars, toolVars>>

\* the entries of two Cookie Sets together
Merged(old, new) == IF old.t = "arr" THEN JArr(old.v \o new.v) ELSE new

\* a mutation that adds the entries to the set it finds
CookiesSet_merged(op, arg, entries, wr) ==
    /\ cookies' = Merged(cookies, entries)
    /\ file' = saveCookies(Merged(cookies, entries), file, wr)
    /\ last' = Op(op, arg, wr = "ok", NotExtracted(""), JUndefined)
    /\ persisted' = IF wr = "ok" THEN Persisted(op, Merged(cookies, entries))
                    ELSE persisted

\* this.cookies = entries; this.saveCookies(), in operation op called with arg
CookiesSet(op, arg, entries, wr) ==
    /\ cookies' = entries
    /\ file' = saveCookies(entries, file, wr)
    /\ last' = Op(op, arg, wr = "ok", NotExtracted(""), JUndefined)
    /\ persisted' = IF wr = "ok" THEN Persisted(op, entries) ELSE persisted

\* setCookies(cookies)
SetCookies ==
    /\ pc = "running"
    /\ \E S \in CookieSets, wr \in WriteOutcomes :
          CookiesSet("setCookies", JArr(S), JArr(S), wr)
    /\ UNCHANGED <<pc, serverVars, pureVars, browserVars, toolVars, channels>>

\* setCookiesFromString(cookieString)
SetCookiesFromString ==
    /\ pc = "running"
    /\ \E raw \in ServerStrings, wr \in WriteOutcomes :
          CookiesSet("setCookiesFromString", raw, JArr(ParseCookieString(raw)), wr)
    /\ UNCHANGED <<pc, serverVars, pureVars, browserVars, toolVars, channels>>

\* the effect of autoExtractCookies() that ended as r
AutoExtracted(r, env) ==
    /\ cookies' = r.cookies
    /\ file' = r.file
    /\ last' = Op("autoExtractCookies", env, TRUE, r.ret, JUndefined)
    /\ persisted' = IF r.ret.kind = "extracted"
                    THEN Persisted("autoExtractCookies", r.cookies)
                    ELSE persisted
    /\ channels' = consoleError(channels, ExtractionLog(r.ret))

\* autoExtractCookies()
AutoExtractCookies ==
    /\ pc = "running"
    /\ \E env \in ServerEnvs, wr \in WriteOutcomes :
          AutoExtracted(autoExtractCookies(cookies, file, env, wr), env)
    /\ UNCHANGED <<pc, serverVars, pureVars, browserVars, toolVars>>

\* the process ends and a new one is about to start on the same file
Restart ==
    /\ pc \in {"running", "crashed"}
    /\ pc' = "start"
    /\ cookies' = EmptyCookies
    /\ last' = NoOp
    /\ channels' = NoOutput
    /\ UNCHANGED <<file, persisted, serverVars, pureVars, browserVars, toolVars>>

\* the urls and methods the browser-mediated request() is called with
TwinUrls == {"/comments"}
TwinMethods == {"GET", "POST"}

\* both variants are constructed on the same file and await init()
TwinStart ==
    /\ pc = "start"
    /\ \E env \in ServerEnvs, wr \in WriteOutcomes :
          /\ Started(StartClient(file, env, wr), Found(file, "none"))
          /\ channels' = consoleError(channels,
                                      ExtractionLog(StartClient(file, env, wr).ret))
          /\ twin' = twinInit(twinConstruct(twin.file), env, wr)
    /\ http' = <<>>
    /\ UNCHANGED <<serverVars, pureVars, bstate, launches, polls, warned, callers,
                   call, result>>

\* setCookies(cookies) on both variants
TwinSetCookies ==
    /\ pc = "running"
    /\ \E S \in CookieSets, wr \in WriteOutcomes :
          /\ CookiesSet("setCookies", JArr(S), JArr(S), wr)
          /\ twin' = twinSetCookies(twin, JArr(S), wr)
    /\ http' = <<>>
    /\ UNCHANGED <<pc, serverVars, pureVars, bstate, launches, polls, warned, callers,
                   call, result, channels>>

\* setCookiesFromString(cookieString) on both variants
TwinSetCookiesFromString ==
    /\ pc = "running"
    /\ \E raw \in ServerStrings, wr \in WriteOutcomes :
          /\ CookiesSet("setCookiesFromString", raw, JArr(ParseCookieString(raw)), wr)
          /\ twin' = twinSetCookiesFromString(twin, raw, wr)
    /\ http' = <<>>
    /\ UNCHANGED <<pc, serverVars, pureVars, bstate, launches, polls, warned, callers,
                   call, result, channels>>

\* autoExtractCookies() on both variants, with the same extraction outcome
TwinAutoExtractCookies ==
    /\ pc = "running"
    /\ \E env \in ServerEnvs, wr \in WriteOutcomes :
          /\ AutoExtracted(autoExtractCookies(cookies, file, env, wr), env)
          /\ twin' = twinAutoExtractCookies(twin, env, wr)
    /\ http' = <<>>
    /\ UNCHANGED <<pc, serverVars, pureVars, bstate, launches, polls, warned, callers,
                   call, result>>

\* request() of the browser-mediated variant: reading the token of a
\* value that is no array throws before anything is dispatched
TwinRequest ==
    /\ pc = "running"
    /\ \E url \in TwinUrls, method \in TwinMethods :
          http' = IF twin.cookies.t = "arr" THEN <<twinRequest(twin, url, method)>>
                  ELSE <<>>
    /\ UNCHANGED <<storeVars, serverVars, pureVars, browserVars, call, result, channels>>

\* both processes end and new ones are about to start on their files
TwinRestart ==
    /\ pc \in {"running", "crashed"}
    /\ pc' = "start"
    /\ cookies' = EmptyCookies
    /\ last' = NoOp
    /\ channels' = NoOutput
    /\ twin' = Twin(EmptyCookies, twin.file, NothingHanded, TRUE)
    /\ http' = <<>>
    /\ UNCHANGED <<file, persisted, serverVars, pureVars, bstate, launches, polls,
                   warned, callers, call, result>>

\* the effect of createServer() that ended as r
ServerCreated(r, lib) ==
    /\ coreClient' = r.coreClient
    /\ registered' = r.registered
    /\ Started(r.web, Found(file, lib))
    /\ channels' = consoleError(channels, StartupLog(config, lib, r.web))

\* createServer() of a process
CreateServer ==
    /\ pc = "start"
    /\ \E lib \in CtorOutcomes, env \in ServerEnvs, wr \in WriteOutcomes :
          ServerCreated(createServer(config, lib, file, env, wr), lib)
    /\ UNCHANGED <<config, pureVars, browserVars, toolVars>>

\* the two entry points: the one of the browser-mediated Web client, whose
\* createServer hands out the Web client, and the one of the direct variant
EntryPoints == {"browser", "direct"}

\* what a shutdown handler has done: the calls it made, in order, and the
\* status the process ended with
ShutdownDone(entry, steps, threw, status) ==
    [entry |-> entry, steps |-> steps, threw |-> threw, status |-> status]

\* the calls of the handler that threw
CloseThrew(entry, webThrows, serverThrows) ==
    (IF entry = "browser" /\ webThrows THEN {"webClient.close"} ELSE {})
      \cup (IF serverThrows THEN {"server.close"} ELSE {})

\* the calls the handler makes before it closes the server
CloseWebClient(entry) == IF entry = "browser" THEN <<"webClient.close">> ELSE <<>>

\* a handler without try/catch around the two close calls: a close that
\* throws ends the handler, and the unhandled rejection ends the process
shutdown_uncaught(entry, webThrows, serverThrows) ==
    IF entry = "browser" /\ webThrows
    THEN ShutdownDone(entry, <<"webClient.close">>, {"webClient.close"}, 1)
    ELSE IF serverThrows
    THEN ShutdownDone(entry, CloseWebClient(entry) \o <<"server.close">>,
                      {"server.close"}, 1)
    ELSE ShutdownDone(entry, CloseWebClient(entry) \o <<"server.close", "process.exit">>,
                      {}, 0)

\* shutdown(): each close is awaited inside a try whose catch is empty, then
\* process.exit(0)
shutdown(entry, webThrows, serverThrows) ==
    ShutdownDone(entry, CloseWebClient(entry) \o <<"server.close", "process.exit">>,
                 CloseThrew(entry, webThrows, serverThrows), 0)

\* the effect of a shutdown handler that ended as d
ShutDown(d) ==
    /\ pc' = IF d.status = 0 THEN "stopped" ELSE "crashed"
    /\ last' = Op("shutdown", d, d.status = 0, NotExtracted(""), JUndefined)
    /\ bstate' = IF \E i \in 1..Len(d.steps) : d.steps[i] = "webClient.close"
                 THEN "closed" ELSE bstate
    /\ channels' = consoleError(channels, {"[curseforge-mcp] Shutting down..."})

\* SIGINT or SIGTERM: the shutdown handler logs, closes what it holds and
\* exits
Shutdown ==
    /\ pc = "running"
    /\ \E entry \in EntryPoints, webThrows \in BOOLEAN, serverThrows \in BOOLEAN :
          ShutDown(shutdown(entry, webThrows, serverThrows))
    /\ UNCHANGED <<twin, cookies, file, persisted, serverVars, pureVars, launches, polls,
                   warned, callers, toolVars>>

\* the process has ended; the next one has a fresh McpServer
RestartServer ==
    /\ pc \in {"running", "crashed", "stopped"}
    /\ pc' = "start"
    /\ cookies' = EmptyCookies
    /\ last' = NoOp
    /\ coreClient' = "null"
    /\ registered' = {}
    /\ channels' = NoOutput
    /\ bstate' = "uninitialized"
    /\ UNCHANGED <<twin, file, persisted, config, pureVars, launches, polls, warned, callers,
                   toolVars>>

\* the extractor applied to an environment
ApplyExtract ==
    /\ input.fn = "extractCookies"
    /\ output = <<>>
    /\ output' = <<extractCookies(input.arg)>>
    /\ UNCHANGED <<input, serverVars, storeVars, browserVars, toolVars, channels>>

\* autoExtractCookies() of a Web client without cookies or session file,
\* applied to an environment and an outcome of the file write
ApplyAutoExtract ==
    /\ input.fn = "autoExtractCookies"
    /\ output = <<>>
    /\ output' = <<autoExtractCookies(EmptyCookies, MissingFile, input.arg.env,
                                     input.arg.wr)>>
    /\ UNCHANGED <<input, serverVars, storeVars, browserVars, toolVars, channels>>

\* WebClient.request applied to a call and an answer of the network
ApplyRequest ==
    /\ input.fn = "request"
    /\ output = <<>>
    /\ output' = <<request(input.arg.cookies, input.arg.url, input.arg.method,
                          input.arg.body, input.arg.extra, input.arg.res)>>
    /\ UNCHANGED <<input, serverVars, storeVars, browserVars, toolVars, channels>>

\* a method of the CFWidget client applied to its argument
ApplyCfWidget ==
    /\ input.fn \in {"getProject", "searchAuthor"}
    /\ output = <<>>
    /\ output' = IF input.fn = "getProject"
                 THEN <<getProject(input.arg.text, input.arg.res)>>
                 ELSE <<searchAuthor(input.arg.text, input.arg.res)>>
    /\ UNCHANGED <<input, serverVars, storeVars, browserVars, toolVars, channels>>

\* a method of the Upload client applied to its arguments
ApplyUpload ==
    /\ input.fn \in {"getGameVersions", "getGameVersionTypes", "uploadFile"}
    /\ output = <<>>
    /\ output' =
          CASE input.fn = "getGameVersions" ->
                 <<getGameVersions(input.arg.token, input.arg.res)>>
            [] input.fn = "getGameVersionTypes" ->
                 <<getGameVersionTypes(input.arg.token, input.arg.res)>>
            [] input.fn = "uploadFile" ->
                 <<uploadFile(input.arg.token, input.arg.projectId, input.arg.filePath,
                              input.arg.readable, input.arg.metadata, input.arg.res)>>
    /\ UNCHANGED <<input, serverVars, storeVars, browserVars, toolVars, channels>>

\* the cookie-string parser applied to a string
ApplyParse ==
    /\ input.fn = "setCookiesFromString"
    /\ output = <<>>
    /\ output' = <<ParseCookieString(input.arg)>>
    /\ UNCHANGED <<input, serverVars, storeVars, browserVars, toolVars, channels>>

\* ------------------------------------------------------------------------
\* Tool calls
\* ------------------------------------------------------------------------

\* a page of one comment without replies
BODY_COMMENTS ==
    Compact(JObj(<< Prop(K_data,
                         JArr(<< JObj(<< Prop(K_id, JNum(<<"7">>)),
                                         Prop(K_author,
                                              JObj(<<Prop(K_username, JStr(<<"u">>))>>)),
                                         Prop(K_text, JStr(<<"h", "i">>)) >>) >>)),
                    Prop(K_pagination,
                         JObj(<<Prop(K_totalCount, JNum(<<"1">>))>>)) >>))

BODY_NULL == <<"n", "u", "l", "l">>
BODY_VERSIONS == <<"[", "{", Quote, "i", "d", Quote, ":", "1", ",", Quote, "n", "a", "m", "e",
      Quote, ":", Quote, "1", ".", "2", "0", Quote, ",", Quote, "g", "a", "m", "e",
      "V", "e", "r", "s", "i", "o", "n", "T", "y", "p", "e", "I", "D", Quote, ":",
      "5", "}", "]">>

\* what the network answers a tool's request with
ToolResponses ==
    { NetworkFailure,
      Response(200, JStr(JSON_UTF8), BODY_COMMENTS, "ok"),
      Response(200, JStr(APPLICATION_JSON), BODY_NULL, "ok"),
      Response(200, JStr(APPLICATION_JSON), BODY_JSON, "fail"),
      Response(200, JStr(TEXT_HTML), BODY_HTML, "ok"),
      Response(204, JNull, <<>>, "ok"),
      Response(404, JStr(TEXT_HTML), BODY_HTML, "ok"),
      Response(500, JStr(APPLICATION_JSON), BODY_JSON, "fail") }

\* what the network answers the Upload client and the CFWidget client with
UploadToolResponses ==
    { NetworkFailure,
      Response(200, JStr(APPLICATION_JSON), BODY_JSON, "ok"),
      Response(200, JStr(APPLICATION_JSON), BODY_VERSIONS, "ok"),
      Response(200, JStr(APPLICATION_JSON), BODY_NULL, "ok"),
      Response(403, JStr(TEXT_HTML), BODY_HTML, "ok"),
      Response(500, JStr(TEXT_HTML), BODY_HTML, "fail") }
PublicToolResponses ==
    { NetworkFailure,
      Response(200, JStr(APPLICATION_JSON), BODY_JSON, "ok"),
      Response(200, JStr(APPLICATION_JSON), BODY_NULL, "ok"),
      Response(404, JStr(TEXT_HTML), BODY_HTML, "fail") }

\* the cookie strings and the environments of the cookie tools
ToolStrings == { <<>>, <<"X", "s", "r", "f", "-", "T", "o", "k", "e", "n", "=", "9",
                        ";", "s", "i", "d", "=", "1">> }
ToolEnvs == { NoLibrary, BrowserEnv(3, "throw", "cookies", RawA) }

PAGE_PATH == <<"/", "m", "i", "n", "e", "c", "r", "a", "f", "t", "/", "m", "c", "-", "m", "o",
      "d", "s", "/", "j", "e", "i", "/", "c", "o", "m", "m", "e", "n", "t", "s">>

RequestTools == {"get_comments", "post_comment", "delete_comment",
                 "get_project_settings", "update_project_description", "cf_fetch_page"}
GuardedTools == RequestTools \ {"cf_fetch_page"}

\* the arguments the request tools are called with
ToolArgs(tool) ==
    CASE tool = "get_comments" -> [mod_id : {42}, page : {1, 2}, page_size : {20}]
      [] tool = "post_comment" ->
           [mod_id : {42}, comment_text : {<<"h", "i">>},
            reply_to_id : {JUndefined, JNum(<<"7">>)}]
      [] tool = "delete_comment" -> [comment_id : {7}]
      [] tool = "get_project_settings" -> [project_id : {42}]
      [] tool = "update_project_description" ->
           [project_id : {42}, description : {<<"<", "p", ">">>}]
      [] tool = "cf_fetch_page" ->
           { [url |-> PAGE_PATH, method |-> "GET", body |-> JUndefined],
             [url |-> URL_PROJECT, method |-> "GET", body |-> JUndefined],
             [url |-> URL_NOT_A_URL, method |-> "GET", body |-> JUndefined],
             [url |-> PAGE_PATH, method |-> "POST", body |-> JStr(<<"{">>)],
             [url |-> URL_COMMENTS, method |-> "PUT", body |-> JStr(BODY_JSON)] }

\* the handler of a request tool
requestTool(tool, cks, f, a, res) ==
    CASE tool = "get_comments" -> get_comments(cks, f, a, res)
      [] tool = "post_comment" -> post_comment(cks, f, a, res)
      [] tool = "delete_comment" -> delete_comment(cks, f, a, res)
      [] tool = "get_project_settings" -> get_project_settings(cks, f, a, res)
      [] tool = "update_project_description" ->
           update_project_description(cks, f, a, res)
      [] tool = "cf_fetch_page" -> cf_fetch_page(cks, f, a, res)

UploadArgs(tool) ==
    IF tool = "upload_file"
    THEN [project_id : {42}, file_path : {FILE_PATH}, readable : BOOLEAN,
          changelog : {JUndefined}, changelog_type : {JStr(<<"m", "a", "r", "k", "d", "o", "w", "n">>)},
          display_name : {JUndefined}, game_version_ids : {JUndefined},
          release_type : {JStr(<<"r", "e", "l", "e", "a", "s", "e">>)},
          relations : {JUndefined}]
    ELSE {<<>>}

\* the handler of an Upload tool
uploadTool(tool, token, cks, f, a, res) ==
    CASE tool = "upload_file" -> upload_file(token, cks, f, a, res)
      [] tool = "get_upload_game_versions" -> get_upload_game_versions(token, cks, f, res)
      [] tool = "get_upload_game_version_types" ->
           get_upload_game_version_types(token, cks, f, res)
      [] tool = "get_upload_dependencies" -> get_upload_dependencies(token, cks, f, res)

PublicArgs(tool) ==
    IF tool = "get_project" THEN [project : {PROJECT_PATH, PROJECT_ID}]
    ELSE [username : {AUTHOR_NAME}]

\* the handler of a CFWidget tool
publicTool(tool, cks, f, a, res) ==
    IF tool = "get_project" THEN get_project(cks, f, a, res)
    ELSE search_author(cks, f, a, res)

\* the result of the call is handed to the transport; the caller, who
\* issues its calls one after another, may make the next
ReturnResult ==
    /\ call # NoCall
    /\ call' = NoCall
    /\ http' = <<>>
    /\ result' = NoResult
    /\ UNCHANGED <<serverVars, storeVars, pureVars, browserVars, channels>>

\* the handler of tool, called with a and answered res, has ended as h
ToolDone(tool, a, res, h) ==
    /\ call' = [tool |-> tool, args |-> a, res |-> res]
    /\ http' = h.sent
    /\ result' = h.result
    /\ cookies' = h.cookies
    /\ file' = h.file

\* a tool of the Web group that issues a request is called
CallRequestTool ==
    /\ pc = "running"
    /\ call = NoCall
    /\ \E tool \in RequestTools \cap registered :
          \E a \in ToolArgs(tool), res \in ToolResponses :
             ToolDone(tool, a, res, requestTool(tool, cookies, file, a, res))
    /\ UNCHANGED <<pc, last, persisted, serverVars, pureVars, browserVars, channels>>

\* cf_set_cookies is called
CallSetCookies ==
    /\ pc = "running"
    /\ call = NoCall
    /\ "cf_set_cookies" \in registered
    /\ \E raw \in ToolStrings, wr \in WriteOutcomes :
          /\ ToolDone("cf_set_cookies", raw, wr, cf_set_cookies(cookies, file, raw, wr))
          /\ last' = Op("setCookiesFromString", raw, wr = "ok", NotExtracted(""),
                        JUndefined)
          /\ persisted' = IF wr = "ok"
                          THEN Persisted("setCookiesFromString",
                                         JArr(ParseCookieString(raw)))
                          ELSE persisted
    /\ UNCHANGED <<pc, serverVars, pureVars, browserVars, channels>>

\* the effect of cf_auto_extract_cookies whose autoExtractCookies() ended as r
AutoExtractCalled(r, env, wr) ==
    /\ ToolDone("cf_auto_extract_cookies", env, wr, AutoExtractHandled(r))
    /\ last' = Op("autoExtractCookies", env, TRUE, r.ret, JUndefined)
    /\ persisted' = IF r.ret.kind = "extracted"
                    THEN Persisted("autoExtractCookies", r.cookies)
                    ELSE persisted
    /\ channels' = consoleError(channels, ExtractionLog(r.ret))

\* cf_auto_extract_cookies is called
CallAutoExtract ==
    /\ pc = "running"
    /\ call = NoCall
    /\ "cf_auto_extract_cookies" \in registered
    /\ \E env \in ToolEnvs, wr \in WriteOutcomes :
          AutoExtractCalled(autoExtractCookies(cookies, file, env, wr), env, wr)
    /\ UNCHANGED <<pc, serverVars, pureVars, browserVars>>

\* a tool of the Upload group is called
CallUploadTool ==
    /\ pc = "running"
    /\ call = NoCall
    /\ \E tool \in UploadTools \cap registered :
          \E a \in UploadArgs(tool), res \in UploadToolResponses :
             ToolDone(tool, a, res,
                      uploadTool(tool, config.curseforgeAuthorToken, cookies, file, a, res))
    /\ UNCHANGED <<pc, last, persisted, serverVars, pureVars, browserVars, channels>>

\* a CFWidget tool is called
CallPublicTool ==
    /\ pc = "running"
    /\ call = NoCall
    /\ \E tool \in PublicTools \cap registered :
          \E a \in PublicArgs(tool), res \in PublicToolResponses :
             ToolDone(tool, a, res, publicTool(tool, cookies, file, a, res))
    /\ UNCHANGED <<pc, last, persisted, serverVars, pureVars, browserVars, channels>>

\* a catalog tool is called
CallCatalogTool ==
    /\ pc = "running"
    /\ call = NoCall
    /\ \E tool \in CatalogTools \cap registered :
          \E how \in IF tool = "download_mod" THEN DownloadOutcomes ELSE CatalogOutcomes :
             ToolDone(tool, <<>>, how, catalogTool(tool, cookies, file, how))
    /\ UNCHANGED <<pc, last, persisted, serverVars, pureVars, browserVars, channels>>

\* ------------------------------------------------------------------------
\* The browser-mediated dispatcher
\* ------------------------------------------------------------------------

\* the polls of the challenge indicator that fit in the fixed timeout
ChallengePolls == 3

\* a request() that makes every call on a BrowserClient of its own
freshBrowser(session) == "uninitialized"

\* the session of the BrowserClient request() calls: this.browser, created
\* once by the constructor
thisBrowser(session) == session

\* what BrowserClient.request does first, by the state of the session:
\* start the launch, await the launch in flight, or use the ready session
onRequest(session) ==
    IF session = "uninitialized" THEN "launch"
    ELSE IF session \in {"launching", "navigating-challenge"} THEN "await"
    ELSE "use"

\* a challenge timeout that gives the request up
afterTimeout_failed == "failed"

\* the state the session takes when the challenge wait times out
afterTimeout == "ready"

\* caller c calls request(url, method, body, extraHeaders)
Request(c) ==
    /\ callers[c].at = "idle"
    /\ callers[c].calls < MaxRequests
    /\ \E how \in {onRequest(thisBrowser(bstate))} :
          /\ callers' = [callers EXCEPT
                            ![c] = [at |-> IF how = "use" THEN "fetching" ELSE "awaiting",
                                    calls |-> @.calls + 1]]
          /\ bstate' = IF how = "launch" THEN "launching" ELSE bstate
          /\ launches' = IF how = "launch" THEN launches + 1 ELSE launches
    /\ UNCHANGED <<twin, polls, warned, serverVars, storeVars, pureVars, toolVars, channels>>

\* the launched browser opens the site and starts to wait for the challenge
LaunchDone ==
    /\ bstate = "launching"
    /\ bstate' = "navigating-challenge"
    /\ polls' = 0
    /\ UNCHANGED <<twin, launches, warned, callers, serverVars, storeVars, pureVars, toolVars, channels>>

\* a poll finds the challenge indicator still on the page
PollChallenge ==
    /\ bstate = "navigating-challenge"
    /\ polls < ChallengePolls
    /\ polls' = polls + 1
    /\ UNCHANGED <<twin, bstate, launches, warned, callers, serverVars, storeVars, pureVars, toolVars, channels>>

\* a poll finds the challenge indicator gone
ChallengeResolved ==
    /\ bstate = "navigating-challenge"
    /\ polls < ChallengePolls
    /\ bstate' = "ready"
    /\ UNCHANGED <<twin, launches, polls, warned, callers, serverVars, storeVars, pureVars, toolVars, channels>>

\* the fixed timeout expires: a warning is logged
ChallengeTimeout ==
    /\ bstate = "navigating-challenge"
    /\ polls = ChallengePolls
    /\ bstate' = afterTimeout
    /\ warned' = TRUE
    /\ UNCHANGED <<twin, launches, polls, callers, serverVars, storeVars, pureVars, toolVars, channels>>

\* a caller that awaited the launch goes on with its request
Resume(c) ==
    /\ callers[c].at = "awaiting"
    /\ bstate = "ready"
    /\ callers' = [callers EXCEPT ![c].at = "fetching"]
    /\ UNCHANGED <<twin, bstate, launches, polls, warned, serverVars, storeVars, pureVars, toolVars, channels>>

\* the browser returns the response to the caller
Respond(c) ==
    /\ callers[c].at = "fetching"
    /\ callers' = [callers EXCEPT ![c].at = "idle"]
    /\ UNCHANGED <<twin, bstate, launches, polls, warned, serverVars, storeVars, pureVars, toolVars, channels>>

\* ------------------------------------------------------------------------
\* Specifications
\* ------------------------------------------------------------------------

NoInput == [fn |-> "none", arg |-> <<>>]

Callers == 1..NumCallers

ToolStart ==
    /\ call = NoCall
    /\ http = <<>>
    /\ result = NoResult
    /\ channels = NoOutput

BrowserIdle ==
    /\ bstate = "uninitialized"
    /\ launches = 0
    /\ polls = 0
    /\ warned = FALSE
    /\ callers = [c \in Callers |-> [at |-> "idle", calls |-> 0]]

BrowserStart ==
    /\ ToolStart
    /\ BrowserIdle
    /\ twin = NoTwin

StoreStart ==
    /\ pc = "start"
    /\ cookies = EmptyCookies
    /\ file \in InitFiles
    /\ last = NoOp
    /\ persisted = NothingPersisted

\* the session store of one Web client over process restarts
Init ==
    /\ StoreStart
    /\ config = FullConfig /\ coreClient = "null" /\ registered = {}
    /\ input = NoInput /\ output = <<>>
    /\ BrowserStart

Next ==
    \/ StartWebClient
    \/ SetCookies
    \/ SetCookiesFromString
    \/ AutoExtractCookies
    \/ Restart

Spec == Init /\ [][Next]_vars

\* the two variants of the Web client side by side, given the same calls
TwinInit ==
    /\ StoreStart
    /\ config = FullConfig /\ coreClient = "null" /\ registered = {}
    /\ input = NoInput /\ output = <<>>
    /\ ToolStart
    /\ BrowserIdle
    /\ twin = Twin(EmptyCookies, file, NothingHanded, TRUE)

TwinNext ==
    \/ TwinStart
    \/ TwinSetCookies
    \/ TwinSetCookiesFromString
    \/ TwinAutoExtractCookies
    \/ TwinRequest
    \/ TwinRestart

TwinSpec == TwinInit /\ [][TwinNext]_vars

\* startup under every configuration
ServerInit ==
    /\ StoreStart
    /\ config \in Configs /\ coreClient = "null" /\ registered = {}
    /\ input = NoInput /\ output = <<>>
    /\ BrowserStart

ServerNext == CreateServer \/ Shutdown \/ RestartServer

ServerSpec == ServerInit /\ [][ServerNext]_vars

\* the extractor and the cookie-string parser on their own
PureInit ==
    /\ pc = "start" /\ cookies = EmptyCookies /\ file = MissingFile
    /\ last = NoOp /\ persisted = NothingPersisted
    /\ config = FullConfig /\ coreClient = "null" /\ registered = {}
    /\ input \in [fn : {"extractCookies"}, arg : ExtractEnvs]
                 \cup [fn : {"setCookiesFromString"}, arg : RawStrings]
                 \cup [fn : {"autoExtractCookies"},
                       arg : [env : ExtractEnvs, wr : WriteOutcomes]]
                 \cup [fn : {"request"}, arg : RequestCalls]
                 \cup CfWidgetCalls
                 \cup UploadCalls
    /\ output = <<>>
    /\ BrowserStart

PureNext ==
    \/ ApplyExtract
    \/ ApplyParse
    \/ ApplyAutoExtract
    \/ ApplyRequest
    \/ ApplyCfWidget
    \/ ApplyUpload

PureSpec == PureInit /\ [][PureNext]_vars

\* the callers of the browser-mediated dispatcher
BrowserInit ==
    /\ pc = "running" /\ cookies = EmptyCookies /\ file = MissingFile
    /\ last = NoOp /\ persisted = NothingPersisted
    /\ config = FullConfig /\ coreClient = "null" /\ registered = {}
    /\ input = NoInput /\ output = <<>>
    /\ BrowserStart

BrowserNext ==
    \/ \E c \in Callers : Request(c)
    \/ LaunchDone
    \/ PollChallenge
    \/ ChallengeResolved
    \/ ChallengeTimeout
    \/ \E c \in Callers : Resume(c)
    \/ \E c \in Callers : Respond(c)

BrowserSpec == BrowserInit /\ [][BrowserNext]_vars

\* the launch and the polling loop run on the event loop: once started
\* they go on; that the indicator ever disappears is not assumed
FairBrowserSpec ==
    /\ BrowserSpec
    /\ WF_vars(LaunchDone)
    /\ WF_vars(PollChallenge)
    /\ WF_vars(ChallengeTimeout)

\* the session files a server that is called starts on
ToolFiles ==
    { MissingFile, TextFile(<<"{", "}">>), TextFile(<<Quote, "a", "b", Quote>>) }

\* a server and the tool calls it is given, one after another
ToolInit ==
    /\ pc = "start" /\ cookies = EmptyCookies /\ file \in ToolFiles
    /\ last = NoOp /\ persisted = NothingPersisted
    /\ config \in Configs /\ coreClient = "null" /\ registered = {}
    /\ input = NoInput /\ output = <<>>
    /\ BrowserStart

ToolNext ==
    \/ CreateServer
    \/ CallRequestTool
    \/ CallSetCookies
    \/ CallAutoExtract
    \/ CallUploadTool
    \/ CallPublicTool
    \/ CallCatalogTool
    \/ ReturnResult

ToolSpec == ToolInit /\ [][ToolNext]_vars

\* ------------------------------------------------------------------------
\* Claims
\* ------------------------------------------------------------------------

\* C1: a process that starts on a file last written by a successful
\* setCookies(S) has, after its constructor's loadCookies, an in-memory
\* Cookie Set equal to S: the same entries in the same order.
C1_RoundTrip ==
    [][(pc = "start" /\ pc' # "start" /\ persisted.by = "setCookies")
          => last'.loaded = persisted.set]_vars

\* a process started on the file of setCookies(<<e, e>>), e a cookie whose
\* value needs escaping, and loaded both copies
C1_Witness ==
    /\ last.op = "start"
    /\ persisted.by = "setCookies"
    /\ Len(persisted.set.v) = 2
    /\ persisted.set.v[1] = CookieEntry(S_sid, S_quoted, CF_DOMAIN, ROOT_PATH)
    /\ persisted.set.v[2] = persisted.set.v[1]
    /\ last.loaded = persisted.set

\* whether the most recent operation is a mutation that returned successfully
MutationSucceeded ==
    \/ last.op \in {"setCookies", "setCookiesFromString"} /\ last.ok
    \/ last.op \in {"autoExtractCookies", "start"} /\ last.ret.kind = "extracted"

\* C2: when a mutating operation has returned successfully the session file
\* encodes exactly the in-memory Cookie Set; at all times the file encodes
\* the set of the last successful mutation, which is what a process started
\* now would load.
C2_PersistBeforeReturn ==
    /\ MutationSucceeded =>
          /\ file.state = "ok"
          /\ loadCookies(file, EmptyCookies) = cookies
    /\ persisted.by # "none" =>
          /\ file.state = "ok"
          /\ loadCookies(file, EmptyCookies) = persisted.set

\* autoExtractCookies found two cookies and the file holds their encoding
C2_Witness ==
    /\ last.op = "autoExtractCookies"
    /\ last.ret.kind = "extracted"
    /\ last.ret.n = 2
    /\ Len(cookies.v) = 2
    /\ file = TextFile(JSONStringify(cookies))

\* a session file that does not hold a JSON array of cookie entries
Malformed(f) ==
    \/ f.state # "ok"
    \/ ~JSONParse(f.data).ok
    \/ ~IsCookieSet(JSONParse(f.data).val)

\* C3: for every content of the session file that is missing, unreadable,
\* unparseable or not an array of cookie entries, constructing the
\* WebClient and running init() does not throw, and the loaded state has
\* hasCookies() false.
C3_MalformedNeverCrashes ==
    (last.op = "start" /\ Malformed(last.arg.file)) =>
        /\ last.ok
        /\ ~hasCookies(last.loaded)

\* the positions of the semicolons of a cookie string
Semicolons(raw) == {i \in 1..Len(raw) : raw[i] = ";"}

\* the position of the k-th semicolon; 0 before the first segment and
\* Len(raw) + 1 after the last
Boundary(raw, k) ==
    IF k = 0 THEN 0
    ELSE IF k > Cardinality(Semicolons(raw)) THEN Len(raw) + 1
    ELSE CHOOSE p \in Semicolons(raw) :
            Cardinality({q \in Semicolons(raw) : q <= p}) = k

\* the k-th segment: the text between two neighbouring semicolons
Segment(raw, k) == SubSeq(raw, Boundary(raw, k - 1) + 1, Boundary(raw, k) - 1)

\* s without the whitespace at its two ends
Stripped(s) ==
    LET solid == {i \in 1..Len(s) : s[i] \notin Whitespace}
    IN  IF solid = {} THEN <<>>
        ELSE SubSeq(s, CHOOSE i \in solid : \A j \in solid : i <= j,
                       CHOOSE i \in solid : \A j \in solid : j <= i)

\* the position of the first "=" of a string that has one
FirstEq(s) == CHOOSE i \in 1..Len(s) : s[i] = "=" /\ \A j \in 1..(i - 1) : s[j] # "="

\* the numbers of the segments that are not blank and contain "="
WellFormed(raw) ==
    {k \in 1..(Cardinality(Semicolons(raw)) + 1) :
        /\ Stripped(Segment(raw, k)) # <<>>
        /\ \E i \in 1..Len(Segment(raw, k)) : Segment(raw, k)[i] = "="}

\* the entry of a well-formed segment
EntryOf(seg) ==
    CookieEntry(Stripped(SubSeq(seg, 1, FirstEq(seg) - 1)),
                Stripped(SubSeq(seg, FirstEq(seg) + 1, Len(seg))),
                CF_DOMAIN, ROOT_PATH)

\* the j-th well-formed segment
NthWellFormed(raw, j) ==
    CHOOSE k \in WellFormed(raw) :
        Cardinality({m \in WellFormed(raw) : m <= k}) = j

\* C4: the entries setCookiesFromString builds are, in the original order,
\* exactly one per segment between semicolons that is not blank and contains
\* "=", with name the text before its first "=" and value the text after
\* it, both trimmed, domain ".curseforge.com" and path "/"; segments
\* without "=" leave nothing.
C4_CookieStringParsing ==
    (input.fn = "setCookiesFromString" /\ output # <<>>) =>
        /\ Len(output[1]) = Cardinality(WellFormed(input.arg))
        /\ \A j \in 1..Len(output[1]) :
              output[1][j] = EntryOf(Segment(input.arg, NthWellFormed(input.arg, j)))

\* "a=1; b=2; malformed; c=3" has given a=1, b=2, c=3 in that order
C4_Witness ==
    /\ input.fn = "setCookiesFromString"
    /\ input.arg = ExampleString
    /\ output = << << CookieEntry(<<"a">>, <<"1">>, CF_DOMAIN, ROOT_PATH),
                      CookieEntry(<<"b">>, <<"2">>, CF_DOMAIN, ROOT_PATH),
                      CookieEntry(<<"c">>, <<"3">>, CF_DOMAIN, ROOT_PATH) >> >>

\* two names that differ at most in the case of their letters
EqualIgnoringCase(a, b) ==
    /\ Len(a) = Len(b)
    /\ \A i \in 1..Len(a) :
          \/ a[i] = b[i]
          \/ \E n \in 1..26 : {a[i], b[i]} = {LowerCase[n], UpperCase[n]}

\* the positions of the entries with an anti-forgery name
XsrfPositions(cks) ==
    {i \in 1..Len(cks.v) :
        \/ EqualIgnoringCase(GetProp(cks.v[i], K_name).v, XSRF_TOKEN)
        \/ EqualIgnoringCase(GetProp(cks.v[i], K_name).v, X_XSRF_TOKEN)}

\* C5: for every Cookie Set, getXsrfToken returns the value of the first
\* entry whose name is XSRF-TOKEN or X-XSRF-TOKEN ignoring case, and
\* undefined when no entry has such a name.
C5_XsrfFirstMatch ==
    IsCookieSet(cookies) =>
        IF XsrfPositions(cookies) = {} THEN getXsrfToken(cookies) = JUndefined
        ELSE \E i \in XsrfPositions(cookies) :
                /\ \A j \in XsrfPositions(cookies) : i <= j
                /\ getXsrfToken(cookies) = GetProp(cookies.v[i], K_value)

\* two anti-forgery cookies under different spellings and values, after an
\* ordinary one would not matter: the first one's value is returned
C5_Witness ==
    /\ IsCookieSet(cookies)
    /\ Len(cookies.v) = 2
    /\ XsrfPositions(cookies) = {1, 2}
    /\ GetProp(cookies.v[1], K_name).v = S_xsrf_lower
    /\ GetProp(cookies.v[1], K_value) # GetProp(cookies.v[2], K_value)
    /\ getXsrfToken(cookies) = JStr(S_t1)

\* whether every tool of a group is registered, or none of it is
Exposed(group) == group \subseteq registered
Absent(group) == group \cap registered = {}

C7_CtorFailureNotFatal ==
    (last.op = "start" /\ config.curseforgeApiKey # "" /\ last.arg.lib = "throw") =>
        /\ pc = "running"
        /\ Absent(CatalogTools)
        /\ Exposed(PublicTools)
        /\ config.curseforgeAuthorToken # "" => Exposed(UploadTools)
        /\ Exposed(WebTools)

\* C8: the number of browser-session launches never exceeds 1, whatever
\* the number of callers and the interleaving of their request() calls;
\* a caller that arrives during the launch awaits it.
C8_SingleLaunch ==
    /\ launches <= 1
    /\ (\E c \in Callers : callers[c].at # "idle") => launches = 1
    /\ \A c \in Callers : callers[c].at = "awaiting" => bstate # "uninitialized"

\* every caller made its first call while the launch was in flight
C8_Witness ==
    /\ bstate = "launching"
    /\ launches = 1
    /\ \A c \in Callers : callers[c].at = "awaiting" /\ callers[c].calls = 1

\* the order in which the session's states may follow each other
SessionOrder ==
    { <<"uninitialized", "launching">>,
      <<"launching", "navigating-challenge">>,
      <<"navigating-challenge", "ready">> }

\* C9: a launch that has started always leads to the ready session, also
\* when the challenge indicator never disappears (the timeout then leads to
\* ready, with a warning); the session changes state only in the order
\* uninitialized, launching, navigating-challenge, ready.
C9_TimeoutProceeds ==
    /\ (bstate = "launching") ~> (bstate = "ready")
    /\ [][bstate' # bstate => <<bstate, bstate'>> \in SessionOrder]_vars
    /\ [](warned => bstate = "ready")

\* the session became ready through the timeout
C9_Witness ==
    /\ bstate = "ready"
    /\ warned
    /\ polls = ChallengePolls

\* the order of the browsers in the claim
PriorityOrder == <<"Chrome", "Firefox", "Edge", "Brave", "Chromium", "Opera",
                   "Opera GX", "Vivaldi", "Arc", "LibreWolf", "OctoBrowser",
                   "Internet Explorer">>

\* the browsers whose query returns a non-empty list
WithCookies(env) ==
    {i \in 1..Len(PriorityOrder) : ~env.out[i].throws /\ env.out[i].raw # <<>>}

\* whether entries are the name, value, domain and path of each raw cookie
SameCookies(entries, raw) ==
    /\ Len(entries) = Len(raw)
    /\ \A k \in 1..Len(raw) :
          /\ IsCookieEntry(entries[k])
          /\ \A key \in {K_name, K_value, K_domain, K_path} :
                GetProp(entries[k], key) = GetProp(raw[k], key)

\* C10: with the library available, extractCookies queries the browsers in
\* the order Chrome, ..., Internet Explorer and returns the name and the
\* cookies of the first whose query returns a non-empty list; browsers that
\* throw or return nothing are passed over, no browser after that one is
\* queried, and without any such browser all are queried and no cookies
\* are returned.
C10_ExtractionPriority ==
    (input.fn = "extractCookies" /\ output # <<>> /\ input.arg.lib) =>
        IF WithCookies(input.arg) = {}
        THEN /\ output[1].cookies = <<>>
             /\ output[1].queried = PriorityOrder
        ELSE \E i \in WithCookies(input.arg) :
                /\ \A j \in WithCookies(input.arg) : i <= j
                /\ output[1].browser = PriorityOrder[i]
                /\ SameCookies(output[1].cookies, input.arg.out[i].raw)
                /\ output[1].queried = SubSeq(PriorityOrder, 1, i)

\* browsers 1 and 2 throw, browser 3 returns two cookies and browser 4 has
\* cookies too: the result is browser 3's, and three browsers were queried
C10_Witness ==
    /\ input.fn = "extractCookies"
    /\ input.arg.lib
    /\ input.arg.out[1].throws /\ input.arg.out[2].throws
    /\ WithCookies(input.arg) = 3..Len(PriorityOrder)
    /\ output # <<>>
    /\ output[1].browser = "Edge"
    /\ Len(output[1].cookies) = 2
    /\ output[1].queried = <<"Chrome", "Firefox", "Edge">>

\* whether a string begins with the words of the catch block
FailureText(text) == text = "Auto-extraction failed: "

\* C11: autoExtractCookies never throws: whatever each browser's query does
\* (throw, empty, non-empty), whether or not the extraction library loads
\* and whether or not the file write fails, it returns a string: a success
\* message, a failure message of the catch block, or, when no browser
\* yields cookies, a descriptive failure message.
C11_ExtractNeverThrows ==
    (input.fn = "autoExtractCookies" /\ output # <<>>) =>
        /\ output[1].ret.kind \in {"extracted", "none", "failed"}
        /\ output[1].ret.kind = "failed" => FailureText(output[1].ret.text)
        /\ (~input.arg.env.lib \/ WithCookies(input.arg.env) = {}) =>
              /\ output[1].ret.kind = "none"
              /\ output[1].ret.text \in {LIB_UNAVAILABLE, NO_BROWSER}
              /\ output[1].ret.text # ""

\* browsers 1 and 2 throw, browser 3 has cookies and the write of the
\* session file fails: the failure message is returned
C11_Witness ==
    /\ input.fn = "autoExtractCookies"
    /\ input.arg.env.lib
    /\ input.arg.env.out[1].throws /\ input.arg.env.out[2].throws
    /\ 3 \in WithCookies(input.arg.env)
    /\ input.arg.wr = "fail"
    /\ output # <<>>
    /\ output[1].ret.kind = "failed"

\* the three digits of an HTTP status code
StatusText(status) ==
    << DigitChars[(status \div 100) + 1], DigitChars[((status \div 10) % 10) + 1],
       DigitChars[(status % 10) + 1] >>

\* whether a client method has sent its request and the network answered
\* with a status that is not 2xx
AnsweredNot2xx(done, res) ==
    /\ Len(done.sent) = 1
    /\ res.net = "ok"
    /\ ~(res.status \in 200..299)

\* whether msg carries more of a body than its first limit characters
CarriesBeyond(msg, payload, limit) ==
    Len(payload) > limit /\ Includes(msg, SubSeq(payload, 1, limit + 1))

\* C12: whenever a request of the direct-HTTP Web client is answered with a
\* status that is not 2xx, request() returns no value: it fails with an
\* error whose message contains the status code and the requested URL and
\* no more of the response body than its first 500 characters.
C12_Non2xxFails ==
    (input.fn = "request" /\ output # <<>> /\ AnsweredNot2xx(output[1], input.arg.res)) =>
        /\ output[1].threw
        /\ output[1].value = JUndefined
        /\ Includes(output[1].msg, StatusText(input.arg.res.status))
        /\ Includes(output[1].msg, input.arg.url)
        /\ ~CarriesBeyond(output[1].msg, input.arg.res.body, 500)
        /\ input.arg.res.text = "ok" =>
              Includes(output[1].msg, SubSeq(input.arg.res.body, 1,
                           IF Len(input.arg.res.body) < 500
                           THEN Len(input.arg.res.body) ELSE 500))

\* status 404 with a body longer than 500 characters: the message ends with
\* the first 500
C12_Witness ==
    /\ input.fn = "request"
    /\ output # <<>>
    /\ input.arg.res.net = "ok"
    /\ input.arg.res.status = 404
    /\ input.arg.res.text = "ok"
    /\ Len(input.arg.res.body) > 500
    /\ output[1].threw
    /\ Len(output[1].sent) = 1
    /\ Len(output[1].msg) = Len(input.arg.url) + 511

\* C15: every request of the Upload client carries the author token in its
\* X-Api-Token header, and whenever a call is answered with a status that
\* is not 2xx it fails with an error whose message carries the status code
\* and no more than a bounded excerpt (500 characters, the longest excerpt
\* any client of the server takes) of the response body.
C15_UploadFailurePolicy ==
    (input.fn \in {"getGameVersions", "getGameVersionTypes", "uploadFile"}
       /\ output # <<>>) =>
        /\ \A i \in 1..Len(output[1].sent) :
              /\ "X-Api-Token" \in DOMAIN output[1].sent[i].headers
              /\ output[1].sent[i].headers["X-Api-Token"] = input.arg.token
        /\ AnsweredNot2xx(output[1], input.arg.res) =>
              /\ output[1].threw
              /\ Includes(output[1].msg, StatusText(input.arg.res.status))
              /\ ~CarriesBeyond(output[1].msg, input.arg.res.body, 500)

\* C16: whatever the network answers, one call of WebClient.request, of a
\* CFWidget client method or of an Upload client method issues at most one
\* HTTP request, and a request that failed (network failure or a status
\* that is not 2xx) ends the call with an error.
C16_NoRetry ==
    (input.fn \in {"request", "getProject", "searchAuthor", "getGameVersions",
                   "getGameVersionTypes", "uploadFile"} /\ output # <<>>) =>
        /\ Len(output[1].sent) <= 1
        /\ (input.arg.res.net = "fail" \/ ~(input.arg.res.status \in 200..299)) =>
              output[1].threw

\* a request answered with status 500 and one that met a network failure:
\* each was sent once and failed
C16_Witness ==
    /\ input.fn = "request"
    /\ output # <<>>
    /\ (input.arg.res.net = "fail" \/ input.arg.res.status = 500)
    /\ Len(output[1].sent) = 1
    /\ output[1].threw

\* C18: whenever a request of the direct-HTTP Web client is answered with a
\* 2xx status and a readable body, request() returns the JSON-decoded body
\* if the response's content type contains "application/json" (it fails if
\* the body is not JSON), and the body text as it is otherwise, a missing
\* content type included.
C18_ResponseDecoding ==
    (input.fn = "request" /\ output # <<>> /\ Len(output[1].sent) = 1
       /\ input.arg.res.net = "ok" /\ input.arg.res.status \in 200..299
       /\ input.arg.res.text = "ok") =>
        IF input.arg.res.ctype.t = "str"
             /\ \E i \in 1..Len(input.arg.res.ctype.v) :
                   /\ i + 15 <= Len(input.arg.res.ctype.v)
                   /\ SubSeq(input.arg.res.ctype.v, i, i + 15) = APPLICATION_JSON
        THEN IF JSONParse(input.arg.res.body).ok
             THEN /\ ~output[1].threw
                  /\ output[1].value = JSONParse(input.arg.res.body).val
             ELSE output[1].threw
        ELSE /\ ~output[1].threw
             /\ output[1].value = JStr(input.arg.res.body)

\* a 200 response of type "application/json; charset=utf-8" whose body is
\* {"a":1}: the value is an object with the property a
C18_Witness ==
    /\ input.fn = "request"
    /\ output # <<>>
    /\ input.arg.res.net = "ok"
    /\ input.arg.res.status = 200
    /\ input.arg.res.ctype = JStr(JSON_UTF8)
    /\ input.arg.res.body = BODY_JSON
    /\ input.arg.res.text = "ok"
    /\ ~output[1].threw
    /\ output[1].value = JObj(<<Prop(<<"a">>, JNum(<<"1">>))>>)

\* C13: whatever the registered tool and whatever its backend call does
\* (success, non-2xx answer, network failure, malformed argument), the
\* handler returns a result, a success or one with isError = TRUE whose
\* text starts with "Error: "; no exception escapes the handler.
C13_ToolBoundary ==
    call.tool # "none" =>
        /\ ~result.threw
        /\ result.isError => StartsWith(result.text, ERROR_PREFIX)
        /\ call.tool \in registered

\* cf_fetch_page was given a body that is no JSON: nothing was sent and the
\* SyntaxError of JSON.parse came back as an error result
C13_Witness ==
    /\ call.tool = "cf_fetch_page"
    /\ call.args.body = JStr(<<"{">>)
    /\ http = <<>>
    /\ result.isError
    /\ StartsWith(result.text, ERROR_PREFIX \o <<"c", "f", "_", "f", "e", "t", "c", "h", "_", "p", "a", "g", "e", ":", " ">>)

\* the anti-forgery header a request built from the Cookie Set cks carries
\* (<<>>: none)
XsrfHeaderOf(cks) ==
    IF Truthy(getXsrfToken(cks)) THEN <<TemplateText(getXsrfToken(cks))>> ELSE <<>>

\* the anti-forgery header of a request (<<>>: none)
XsrfHeaderIn(req) ==
    IF "X-XSRF-TOKEN" \in DOMAIN req.headers THEN <<req.headers["X-XSRF-TOKEN"]>>
    ELSE <<>>

\* the Cookie Set the most recent mutation of this process has left, when
\* that mutation replaced the set
LeftByMutation(cks) ==
    /\ last.op = "setCookiesFromString" => cks = JArr(ParseCookieString(last.arg))
    /\ (last.op = "autoExtractCookies" /\ last.ret.kind = "extracted")
          => cks = persisted.set

\* C14: a request a caller issues after a sequence of cookie mutations and
\* requests is built from the Cookie Set the most recent mutation left: its
\* Cookie header and its X-XSRF-TOKEN header are those of the set current
\* at the call, not of the set at construction or at an earlier request.
C14_LastUpdateWins ==
    [][(call = NoCall /\ call'.tool \in RequestTools /\ http' # <<>>)
          => /\ LeftByMutation(cookies)
             /\ http'[1].headers["Cookie"] = getCookieHeader(cookies)
             /\ XsrfHeaderIn(http'[1]) = XsrfHeaderOf(cookies)]_vars

\* a browser extraction was followed by cf_set_cookies whose file write
\* failed, and the next get_comments carried the cookies of the string
C14_Witness ==
    /\ call.tool = "get_comments"
    /\ persisted.by = "autoExtractCookies"
    /\ last.op = "setCookiesFromString"
    /\ ~last.ok
    /\ Len(http) = 1
    /\ http[1].headers["Cookie"] = <<"X", "s", "r", "f", "-", "T", "o", "k", "e", "n", "=", "9", ";", " ", "s", "i",
      "d", "=", "1">>
    /\ XsrfHeaderIn(http[1]) = <<<<"9">>>>

CommentTools == {"get_comments", "post_comment", "delete_comment"}
AuthorTools == {"get_project_settings", "update_project_description"}

\* whether a request carries the session's credential and no other: the
\* Cookie header of the Cookie Set cks, its anti-forgery token when it has
\* one, and no API token
CarriesSession(req, cks) ==
    /\ "Cookie" \in DOMAIN req.headers
    /\ req.headers["Cookie"] = getCookieHeader(cks)
    /\ XsrfHeaderIn(req) = XsrfHeaderOf(cks)
    /\ "X-Api-Token" \notin DOMAIN req.headers

\* whether a request carries none of the secrets
CarriesNoSecret(req) ==
    DOMAIN req.headers \cap {"Cookie", "X-XSRF-TOKEN", "X-Api-Token", "x-api-key"} = {}

\* whether the request a tool has sent went where the tool's operation
\* belongs, with the credential of that operation only
RoutedRight(req) ==
    /\ call.tool \in PublicTools =>
          /\ StartsWith(req.url, <<"h", "t", "t", "p", "s", ":", "/", "/", "a", "p", "i", ".", "c",
                                   "f", "w", "i", "d", "g", "e", "t",
                                   ".", "c", "o", "m", "/">>)
          /\ CarriesNoSecret(req)
    /\ call.tool \in CommentTools =>
          /\ StartsWith(req.url, <<"h", "t", "t", "p", "s", ":", "/", "/", "w", "w", "w", ".", "c",
                                   "u", "r", "s", "e", "f", "o", "r",
                                   "g", "e", ".", "c", "o", "m", "/",
                                   "a", "p", "i", "/", "v", "1", "/">>)
          /\ CarriesSession(req, cookies)
    /\ call.tool \in AuthorTools =>
          /\ StartsWith(req.url, <<"h", "t", "t", "p", "s", ":", "/", "/", "a", "u", "t", "h", "o",
                                   "r", "s", ".", "c", "u", "r", "s",
                                   "e", "f", "o", "r", "g", "e", ".",
                                   "c", "o", "m", "/", "_", "a", "p",
                                   "i", "/">>)
          /\ CarriesSession(req, cookies)
    /\ call.tool \in UploadTools =>
          /\ StartsWith(req.url, <<"h", "t", "t", "p", "s", ":", "/", "/", "w", "w", "w", ".", "c",
                                   "u", "r", "s", "e", "f", "o", "r",
                                   "g", "e", ".", "c", "o", "m", "/",
                                   "a", "p", "i", "/">>)
          /\ ~StartsWith(req.url, <<"h", "t", "t", "p", "s", ":", "/", "/", "w", "w", "w", ".", "c",
                                    "u", "r", "s", "e", "f", "o",
                                    "r", "g", "e", ".", "c", "o",
                                    "m", "/", "a", "p", "i", "/",
                                    "v", "1", "/">>)
          /\ req.headers["X-Api-Token"] = config.curseforgeAuthorToken
          /\ DOMAIN req.headers \cap {"Cookie", "X-XSRF-TOKEN", "x-api-key"} = {}
    /\ call.tool = "cf_fetch_page" =>
          /\ StartsWith(call.args.url, <<"h", "t", "t", "p">>) => req.url = call.args.url
          /\ ~StartsWith(call.args.url, <<"h", "t", "t", "p">>)
                => req.url = <<"h", "t", "t", "p", "s", ":", "/", "/", "w", "w", "w", ".", "c",
                               "u", "r", "s", "e", "f", "o", "r",
                               "g", "e", ".", "c", "o", "m">> \o call.args.url

\* C19: every request a tool sends goes to the authority of its operation
\* with that operation's credential only: public lookups to api.cfwidget.com
\* without a secret, comment operations to www.curseforge.com/api/v1 and
\* settings and description edits to authors.curseforge.com/_api with the
\* cookies and the anti-forgery token of the Cookie Set, uploads to
\* www.curseforge.com/api with X-Api-Token; cf_fetch_page requests the given
\* URL unchanged when it starts with "http" and prefixed with
\* https://www.curseforge.com otherwise.
C19_Routing ==
    /\ \A i \in 1..Len(http) : RoutedRight(http[i])
    /\ call.tool \in PublicTools \cup UploadTools \cup RequestTools => Len(http) <= 1

\* update_project_description has sent its PUT to the authors' site, with
\* the cookies and the anti-forgery token of the session
C19_Witness ==
    /\ call.tool = "update_project_description"
    /\ Len(http) = 1
    /\ http[1].method = "PUT"
    /\ http[1].url = <<"h", "t", "t", "p", "s", ":", "/", "/", "a", "u", "t", "h", "o",
                       "r", "s", ".", "c", "u", "r", "s", "e", "f",
                       "o", "r", "g", "e", ".", "c", "o", "m", "/",
                       "_", "a", "p", "i", "/", "p", "r", "o", "j",
                       "e", "c", "t", "s", "/", "d", "e", "s", "c",
                       "r", "i", "p", "t", "i", "o", "n", "/", "4",
                       "2">>
    /\ XsrfHeaderIn(http[1]) = <<<<"9">>>>
    /\ ~result.isError

\* C20: while the Cookie Set is empty (hasCookies() is false) none of
\* get_comments, post_comment, delete_comment, get_project_settings,
\* update_project_description and cf_fetch_page sends a request: each
\* returns the structured failure without calling the dispatcher; once a
\* mutation has made the set non-empty the next call is dispatched.
C20_TotalDisabling ==
    call.tool \in RequestTools =>
        /\ ~hasCookies(cookies) => (http = <<>> /\ result.isError)
        /\ hasCookies(cookies) => result # error(NO_SESSION)

\* C17: a missing secret is no error and no diagnostic reaches the response
\* channel: whatever secrets are absent createServer raises no error, and
\* what startup, extraction and shutdown log is written to stderr, nothing
\* of it to stdout.
C17_QuietStartup ==
    /\ pc # "crashed"
    /\ channels.stdout = {}

\* the Cookie Set the most recent setCookies or setCookiesFromString was
\* called to install
Installed ==
    IF last.op = "setCookies" THEN last.arg ELSE JArr(ParseCookieString(last.arg))

\* C21: after setCookies(S) or setCookiesFromString(raw) the in-memory
\* Cookie Set is exactly S (the entries parsed from raw), whatever it was
\* before, and when the call has returned the file holds exactly that set;
\* a raw string without a well-formed segment leaves the empty set, the
\* file holding an empty array, and hasCookies() false.
C21_WholesaleReplacement ==
    last.op \in {"setCookies", "setCookiesFromString"} =>
        /\ cookies = Installed
        /\ last.ok => file = TextFile(JSONStringify(Installed))
        /\ (last.op = "setCookiesFromString" /\ ParseCookieString(last.arg) = <<>>) =>
              /\ ~hasCookies(cookies)
              /\ last.ok => file = TextFile(<<"[", "]">>)

\* C21 witness: a running process was given the string "mal", which has no
\* well-formed segment: the set is empty and the file holds []
C21_Witness ==
    /\ last.op = "setCookiesFromString"
    /\ last.arg = <<"m", "a", "l">>
    /\ last.ok
    /\ cookies = EmptyCookies
    /\ file = TextFile(<<"[", "]">>)

\* whether a loaded value is a Cookie Set with at least one entry
NonEmptySet(v) == IsCookieSet(v) /\ v.v # <<>>

\* whether the startup that has just ended ran autoExtractCookies
ExtractionRan == last.ret # NotExtracted("")

\* C22: init() runs autoExtractCookies exactly when the Cookie Set loaded
\* from the session file is empty; when the file yields a non-empty set,
\* startup queries no browser, keeps the loaded set and leaves the file as
\* it found it.
C22_LoadOrExtract ==
    last.op = "start" =>
        /\ ExtractionRan <=> ~NonEmptySet(last.loaded)
        /\ NonEmptySet(last.loaded) =>
              /\ cookies = last.loaded
              /\ file = last.arg.file

\* C23: the Web client is torn down only at shutdown and shutdown always
\* ends the process: on SIGINT or SIGTERM the handler attempts
\* webClient.close(), then server.close(), and then exits with status 0
\* even when a close throws; webClient.close() is called nowhere else.
C23_TeardownAtShutdown ==
    /\ last.op = "shutdown" =>
          /\ pc = "stopped"
          /\ last.arg.status = 0
          /\ last.arg.steps = <<"webClient.close", "server.close", "process.exit">>
    /\ bstate = "closed" => last.op = "shutdown"

\* C23 (amended): every shutdown ends the process with status 0 even when
\* a close throws; the handler of the browser-mediated entry point attempts
\* webClient.close(), then server.close(), then exits, the handler of the
\* direct entry point attempts server.close() only and exits; the Web
\* client is closed by the shutdown handler of the browser-mediated entry
\* point and from no other place.
C23_TeardownByEntryPoint ==
    /\ last.op = "shutdown" =>
          /\ pc = "stopped"
          /\ last.arg.status = 0
          /\ last.arg.entry = "browser" =>
                last.arg.steps = <<"webClient.close", "server.close", "process.exit">>
          /\ last.arg.entry = "direct" =>
                last.arg.steps = <<"server.close", "process.exit">>
    /\ bstate = "closed" => (last.op = "shutdown" /\ last.arg.entry = "browser")

\* a shutdown of the browser-mediated entry point in which both close calls
\* threw: the process has exited with status 0 and the session is closed
C23_Witness ==
    /\ pc = "stopped"
    /\ last.op = "shutdown"
    /\ last.arg.entry = "browser"
    /\ last.arg.threw = {"webClient.close", "server.close"}
    /\ last.arg.status = 0
    /\ bstate = "closed"

\* whether this step is a call of autoExtractCookies, by a caller or by
\* init(), that returned a message of the given kinds
ExtractionReturned(kinds) ==
    /\ \/ last'.op = "autoExtractCookies"
       \/ last'.op = "start" /\ last'.ret # NotExtracted("")
    /\ last'.ret.kind \in kinds

\* the Cookie Set autoExtractCookies found when it was called in this step
SetBefore == IF last'.op = "start" THEN last'.loaded ELSE cookies

\* C24: whenever autoExtractCookies returns something other than
\* "Extracted N cookies from <browser>" (no browser had cookies, no
\* library, or "Auto-extraction failed: ..."), the in-memory Cookie Set,
\* hasCookies() and the file are what they were before the call.
C24_FailedExtractionChangesNothing ==
    [][ExtractionReturned({"none", "failed"})
          => (cookies' = SetBefore /\ file' = file)]_vars

\* C24 (amended): when autoExtractCookies returns that no browser had
\* cookies or that the library is unavailable, the in-memory Cookie Set,
\* hasCookies() and the file are what they were before the call; when it
\* returns "Auto-extraction failed: ..." because the file could not be
\* written, the file is what it was before, but the in-memory Cookie Set
\* has already been replaced by the extracted cookies and hasCookies() is
\* true.
C24_FailedExtractionKeepsFile ==
    [][/\ ExtractionReturned({"none"}) => (cookies' = SetBefore /\ file' = file)
       /\ ExtractionReturned({"failed"}) =>
             /\ file' = file
             /\ IsCookieSet(cookies') /\ hasCookies(cookies')
             /\ last'.op = "autoExtractCookies" =>
                   cookies' = JArr(extractCookies(last'.arg).cookies)]_vars

\* an extraction whose file write failed: the two extracted cookies are in
\* memory while the file still holds something else
C24_Witness ==
    /\ last.op = "autoExtractCookies"
    /\ last.ret.kind = "failed"
    /\ Len(cookies.v) = 2
    /\ loadCookies(file, EmptyCookies) # cookies


\* C25: in the browser-mediated WebClient, once init() has completed and
\* after every setCookies, setCookiesFromString and autoExtractCookies, the
\* cookie set last handed to the BrowserClient equals the WebClient's
\* in-memory Cookie Set, and every request dispatched through the browser
\* carries the WebClient's current Cookie Set, never an older one.
C25_BrowserInSync ==
    /\ pc = "running" => twin.handed = twin.cookies
    /\ \A i \in 1..Len(http) : http[i].cookies = twin.cookies

\* C25 witness: a running browser-mediated WebClient whose Cookie Set was
\* replaced by a cookie string with an entry has dispatched a request
\* with that set.
C25_Witness ==
    /\ pc = "running"
    /\ last.op = "setCookiesFromString"
    /\ hasCookies(twin.cookies)
    /\ twin.cookies # last.loaded
    /\ Len(http) = 1
    /\ http[1].cookies = twin.cookies

\* C26: run side by side from the same session file and given the same
\* calls with the same extraction and write outcomes, the direct variant
\* and the browser-mediated variant have, after every step, equal
\* in-memory Cookie Sets, equal hasCookies() results, equal anti-forgery
\* token lookups and equal persisted file contents, and a call returns in
\* the one exactly when it returns in the other.
C26_VariantsAgree ==
    /\ twin.cookies = cookies
    /\ twin.file = file
    /\ ~LengthThrows(cookies) => (hasCookies(twin.cookies) <=> hasCookies(cookies))
    /\ cookies.t = "arr" => getXsrfToken(twin.cookies) = getXsrfToken(cookies)
    /\ pc # "start" => twin.ok = last.ok

\* C26 witness: both variants extracted cookies and could not write them;
\* both hold the extracted set and the file both started on.
C26_Witness ==
    /\ pc = "running"
    /\ last.op = "autoExtractCookies"
    /\ last.ret.kind = "failed"
    /\ hasCookies(cookies)
    /\ twin.cookies = cookies
    /\ twin.file = file


\* the headers of the request a call of request() has sent
SentHeaders == output[1].sent[1].headers

\* whether a call of request() with caller-supplied headers has sent a
\* request
SentWithExtra ==
    /\ input.fn = "request"
    /\ output # <<>>
    /\ output[1].sent # <<>>
    /\ input.arg.extra # NoHeaders

\* whether every caller-supplied header with one of the names is sent as
\* the caller gave it
CallerWins(names) ==
    \A h \in names \cap DOMAIN input.arg.extra :
        h \in DOMAIN SentHeaders /\ SentHeaders[h] = input.arg.extra[h]

Overridable == {"User-Agent", "Cookie", "Accept", "Origin", "Referer", "Content-Type"}

\* C27 as stated: whenever the Cookie Set contains an anti-forgery cookie,
\* the X-XSRF-TOKEN header of the request the direct variant sends equals
\* that cookie's value, whatever X-XSRF-TOKEN the caller passes in
\* extraHeaders, while the caller's User-Agent, Cookie, Accept, Origin,
\* Referer and Content-Type are sent as given.
C27_TokenPrecedence ==
    SentWithExtra =>
        /\ FindXsrf(input.arg.cookies.v) # JUndefined =>
              /\ "X-XSRF-TOKEN" \in DOMAIN SentHeaders
              /\ JStr(SentHeaders["X-XSRF-TOKEN"]) = getXsrfToken(input.arg.cookies)
        /\ CallerWins(Overridable)

\* C27 amended: whenever the first anti-forgery cookie of the Cookie Set
\* has a non-empty value, the X-XSRF-TOKEN of the headers object handed to
\* fetch is that value, whatever X-XSRF-TOKEN the caller passes; when
\* there is no such cookie or its value is empty, the client adds no token
\* and a caller-supplied X-XSRF-TOKEN is sent as given; the caller's
\* User-Agent, Cookie, Accept, Origin, Referer and Content-Type are always
\* sent as given.
C27_NonEmptyTokenPrecedence ==
    SentWithExtra =>
        /\ Truthy(getXsrfToken(input.arg.cookies)) =>
              /\ "X-XSRF-TOKEN" \in DOMAIN SentHeaders
              /\ SentHeaders["X-XSRF-TOKEN"] = TemplateText(getXsrfToken(input.arg.cookies))
        /\ ~Truthy(getXsrfToken(input.arg.cookies)) =>
              /\ CallerWins({"X-XSRF-TOKEN"})
              /\ "X-XSRF-TOKEN" \in DOMAIN SentHeaders => "X-XSRF-TOKEN" \in DOMAIN input.arg.extra
        /\ CallerWins(Overridable)

\* C27 witness: a PUT with a body, a session whose anti-forgery cookie is
\* t2 and a caller that supplies all seven headers: the request carries
\* the cookie's token and the caller's Content-Type and Cookie.
C27_Witness ==
    /\ SentWithExtra
    /\ input.arg.cookies = SessionCookies
    /\ input.arg.body # JUndefined
    /\ DOMAIN input.arg.extra = HeaderNames
    /\ SentHeaders["X-XSRF-TOKEN"] = S_t2
    /\ SentHeaders["Content-Type"] = CallerValue
    /\ SentHeaders["Cookie"] = CallerValue


\* whether the registered tools are split as registerCoreApiTools splits
\* them: all twelve catalog tools with a Core client and none without,
\* get_project and search_author in both cases
SplitByCoreClient ==
    /\ Cardinality(CatalogTools) = 12
    /\ IF coreClient # "null" THEN CatalogTools \subseteq registered
       ELSE CatalogTools \cap registered = {}
    /\ PublicTools \subseteq registered

\* C28: once createServer has run, the twelve API-key tools are registered
\* if and only if the Core client is non-null and get_project and
\* search_author are registered in every case, and no later operation of
\* the process changes the registered set.
C28_CatalogPublicSplit ==
    [][/\ pc' # "start" => SplitByCoreClient'
       /\ pc # "start" => registered' = registered]_vars

\* C28 witness: a server whose API key is set but whose Core client could
\* not be built has answered search_author: the public tools are
\* registered and no catalog tool is.
C28_Witness ==
    /\ pc = "running"
    /\ config.curseforgeApiKey # ""
    /\ coreClient = "null"
    /\ call.tool = "search_author"
    /\ SplitByCoreClient
    /\ "get_mod" \notin registered

====
